---- MODULE Spec2Model ----
(***************************************************************************)
(* A model of bottom-server's event pipeline: the orchestrating thread     *)
(* (main and its event loop), the input, cleaning and collection threads,  *)
(* the terminal-widget command worker, the event channel, the control      *)
(* channel and the termination mutex / condition variable.                 *)
(***************************************************************************)
EXTENDS Integers, Sequences, FiniteSets, TLC

(***************************************************************************)
(* Bounds of the model.                                                    *)
(***************************************************************************)
\* device events the input thread reads before the device goes quiet
MaxInput == 1
\* timed waits that time out, per waiting thread, while the flag is false
MaxTicks == 1
\* output chunks a command worker reports before it finishes
MaxWorkerOut == 1
\* clock ticks of 10 s the DataStore is followed for
MaxClock == 7
\* snapshots harvested and not yet received by MainLoop
MaxInFlight == 2
\* lines of terminal output, rows of the terminal widget, and lines scrolled
MaxScroll == 3
\* days of uptime and of streak
MaxDays == 2
\* frames main draws before it stops
MaxFrames == 12
\* steps of the clock the input thread reads
MaxInputTicks == 6
\* rows of connections data
MaxRows == 3
\* Enter keys read in a terminal widget
MaxEnters == 2
\* keys read that make MainLoop send on the control channel
MaxControlKeys == 2
\* characters of a terminal widget's stdout
MaxStdout == 4
\* bytes limit_output leaves of stdout: 100000 in the source, scaled down
MaxOutputBytes == 3
\* characters in an input line of the terminal widget
MaxLine == 2
\* input lines the terminal widget keeps
MaxHistory == 3

(***************************************************************************)
(* Values.                                                                 *)
(***************************************************************************)
\* app_config_fields.update_rate_in_milliseconds as configured at startup
DefaultRateMs == 1000
\* tick intervals an UpdateUpdateTime message may carry
NewTimes == {2000, 5000}

\* data_harvester::temperature::TemperatureType
TemperatureTypes == {"Celsius", "Kelvin", "Fahrenheit"}

\* the fields of AppConfigFields the collection thread reads
ConfigFields ==
    [temperature_type : TemperatureTypes,
     use_current_cpu_total : BOOLEAN,
     unnormalized_cpu : BOOLEAN,
     show_average_cpu : BOOLEAN]

\* the window in which a second scroll-wheel event is dropped, in ms
ScrollWindowMs == 20
\* ms in one step of the clock the input thread reads: half the window
InputTickMs == ScrollWindowMs \div 2
\* the kinds of event crossterm's read() returns, mouse events by their kind
InputKinds ==
    {"Resize", "Paste", "Key", "MouseScroll", "MouseDown", "MouseUp",
     "MouseMoved", "MouseDrag", "FocusGained"}

\* the characters of the strings below, in byte order
Alphabet ==
    <<"/", "1", "2", "3", "4", "5", "E", "L", "a", "b", "c", "o", "p", "r">>
\* a length as u16 is the length modulo this
U16Modulus == 65536
\* u32::MAX is 4294967295: ten times this number, and 5
U32MaxDiv10 == 429496729
\* the value of a decimal digit
DigitValue == ("1" :> 1) @@ ("2" :> 2) @@ ("3" :> 3) @@ ("4" :> 4) @@ ("5" :> 5)

\* ConnectionsWidgetColumn, in the order of the table's columns
Columns == <<"Name", "LocalAddress", "RemoteAddress", "Status">>
SortOrders == {"Ascending", "Descending"}

\* ConnectionsWidgetData; a String is the sequence of its characters
Row1234 ==
    [name |-> <<"1", "2", "3", "4", "/", "p", "r", "o", "c">>,
     local_address |-> <<"a">>, remote_address |-> <<"b", "b">>,
     status |-> <<"L">>]
Row55 ==
    [name |-> <<"5", "5", "/", "p", "r", "o", "c">>,
     local_address |-> <<"a", "b">>, remote_address |-> <<"b">>,
     status |-> <<"E">>]
Row55Other ==
    [name |-> <<"5", "5", "/", "o">>,
     local_address |-> <<"a">>, remote_address |-> <<"a">>,
     status |-> <<"L">>]
RowNoId ==
    [name |-> <<"p", "r", "o", "c">>,
     local_address |-> <<"b">>, remote_address |-> <<>>,
     status |-> <<"E", "L">>]
RowPool == {Row1234, Row55, Row55Other, RowNoId}

\* the bytes of a character of stdout: ASCII, or U+FFFD as from_utf8_lossy
\* puts it for a byte that is no UTF-8 on its own
CharWidths == {1, 3}

\* the waits an UpdateUpdateTime message can ask for
UpdateTimes == {DefaultRateMs \div 2, DefaultRateMs, DefaultRateMs * 2}

\* AppConfigFields of a run without options
DefaultFields ==
    [temperature_type |-> "Celsius",
     use_current_cpu_total |-> FALSE,
     unnormalized_cpu |-> FALSE,
     show_average_cpu |-> FALSE]

\* the metric categories of UsedWidgets that have a dirty flag or marker
Categories == {"proc", "temp", "disk", "cpu", "mem", "net"}
\* the widget states with a force_update_data flag, by widget id
TableWidgets == {"proc1", "proc2", "temp1", "disk1"}
\* cpu_state, mem_state and net_state, each with a force_update marker
GraphStates == {"cpu", "mem", "net"}

\* the category a widget state or graph state shows
CategoryOf(w) ==
    CASE w \in {"proc1", "proc2"} -> "proc"
      [] w = "temp1" -> "temp"
      [] w = "disk1" -> "disk"
      [] OTHER -> w

\* values of app_config_fields.retention_ms, in ms
Retentions == {30000, 60000}

\* ThreadControlEvent
ControlMsgs ==
    [type : {"Reset", "UpdateConfig", "UpdateUsedWidgets"}, ms : {0}]
    \cup [type : {"UpdateUpdateTime"}, ms : NewTimes]

Producers == {"input", "coll", "clean", "worker"}
Keys == {"q", "ctrl_r", "enter", "other"}
\* what crossterm's read() can return to the input thread
DeviceEvents ==
    [kind : {"Resize", "MouseScroll"}, key : {""}]
    \cup [kind : {"Key"}, key : Keys]

VARIABLES
    \* orchestrating thread
    mpc,            \* "loop", "exit", "notify", "cleanup", "returned"
    mresult,        \* "none", "ok", "err": what main returned
    is_terminated,  \* the AtomicBool the Ctrl-C handler stores to
    \* termination coordinator
    flag,           \* *thread_termination_lock
    lockHolder,     \* thread holding thread_termination_lock across steps
    notified,       \* notify_all has been issued
    \* event channel
    queue,          \* events sent and not yet received
    nsent,          \* per producer: events sent successfully
    nrecv,          \* per producer: events MainLoop has received
    \* input thread
    ipc,            \* "check", "poll", "done"
    ninput,         \* device events read so far
    \* cleaning thread
    kpc,            \* "wait", "waiting", "wakeup", "woken", "send", "done"
    kticks,         \* time-outs of its wait so far
    kfalse,         \* returns of its wait that found the flag false
    ksends,         \* calls of cleaning_sender.send
    \* collection thread
    cpc,            \* "check1", "ctrl", "harvest", "check2", "send", "wait",
                    \* "waiting", "wakeup", "woken", "done"
    cticks,         \* time-outs of its wait so far
    ctrlq,          \* control channel: messages sent and not yet received
    update_time,    \* the loop's local update_time
    data,           \* data_state.data: 0 is Data::default(), n the n-th harvest
    iter,           \* loop iterations started
    waitTimeout,    \* the timeout given to the last wait_timeout call
    iterTime,       \* ms of the UpdateUpdateTime received this iteration, or 0
    lastTime,       \* ms of the last UpdateUpdateTime received, or 0
    \* terminal command worker
    wpc,            \* "none", "run", "finish", "done", "crashed"
    wout,           \* output chunks reported so far
    wlive,          \* worker threads spawned and not yet ended
    nfail,          \* per producer: sends that failed (counted up to 2)
    \* after the broadcast
    post,           \* producer threads that began a loop iteration after notify_all
    \* application state
    eaten,          \* the snapshots data_collection.eat_data has merged, in order
    is_working,     \* the terminal widget's is_working
    tstdout,        \* the terminal widget's stdout: chunks appended so far
    \* the collection thread's harvester configuration
    harvester,      \* data_state's settings, the closure's captures, the last
                    \* UpdateConfig processed, if any
    \* MainLoop's widget bookkeeping
    widgets,        \* used_widgets, frozen_state, the dirty flags, and what the
                    \* handler in progress has done
    \* the DataStore over time
    store,          \* the clock, the snapshots in flight, data_collection's
                    \* timed_data_vec, retention_ms, the last operation
    \* drawing one widget
    paint,          \* the widget's state, what was last done with it and how
                    \* that ended
    \* the terminal, from main's point of view
    term,           \* main's position, the terminal's modes, main's result
    \* the input thread and the clock
    debounce,       \* the time, mouse_timer, the event last read and what
                    \* was sent for it
    \* a connections widget
    table,          \* converted_data.connections_data, the table's rows, sort
                    \* state, selection and column widths, the last operation
    \* the terminal widget's input lines
    prompt,         \* stdin by the lengths of its lines, selected_input,
                    \* input_offset, is_working, the last key and how it ended
    \* one command of a terminal widget
    command,        \* the worker's position, is_working, stdout by the byte
                    \* widths of its characters, stdout before limit_output
    \* the two mutexes
    locks,          \* the holders of the app mutex and the termination mutex and
                    \* each thread's position between its lock() calls
    \* the keys that end MainLoop
    quit            \* the focused widget, the key MainLoop handled last and what
                    \* it did for it

mainVars == <<mpc, mresult, is_terminated>>
termVars == <<flag, lockHolder, notified>>
busVars == <<queue, nsent, nrecv, nfail>>
inputVars == <<ipc, ninput>>
cleanVars == <<kpc, kticks, kfalse, ksends>>
collVars == <<cpc, cticks, update_time, data, iter, waitTimeout,
              iterTime, lastTime>>
ctrlVars == <<ctrlq>>
workerVars == <<wpc, wout, wlive>>
threadVars == <<mainVars, termVars, busVars, inputVars, cleanVars, collVars,
                ctrlVars, workerVars, post>>
\* application state the threads share
termWidgetVars == <<is_working, tstdout>>
appVars == <<eaten, termWidgetVars>>
\* state of the sequential parts of the program, each checked on its own
pureVars == <<harvester, widgets, store, paint, term, debounce, table, prompt, command, locks, quit>>
vars == <<threadVars, appVars, pureVars>>

\* the Receiver lives in main's frame: it is dropped when main returns
rxAlive == mpc # "returned"

Event(kind, src, key, snap) ==
    [kind |-> kind, src |-> src, seq |-> nsent[src] + 1, key |-> key, snap |-> snap]

\* thread t goes past the top of its loop
Began(t) == IF notified THEN post \cup {t} ELSE post

\* the threads and channels once main has spawned the producers
InitThreads ==
    /\ mpc = "loop" /\ mresult = "none" /\ is_terminated = FALSE
    /\ flag = FALSE /\ lockHolder = "none" /\ notified = FALSE
    /\ queue = <<>>
    /\ nsent = [p \in Producers |-> 0]
    /\ nrecv = [p \in Producers |-> 0]
    /\ ipc = "check" /\ ninput = 0
    /\ kpc = "wait" /\ kticks = 0 /\ kfalse = 0 /\ ksends = 0
    /\ cpc = "check1" /\ cticks = 0 /\ ctrlq = <<>>
    /\ update_time = DefaultRateMs /\ data = 0 /\ iter = 0
    /\ waitTimeout = 0 /\ iterTime = 0 /\ lastTime = 0
    /\ wpc = "none" /\ wout = 0 /\ wlive = 0
    /\ nfail = [p \in Producers |-> 0]
    /\ post = {}

\* the settings create_collection_thread gives data_state before its loop:
\* those of the startup app_config_fields, of which the closure keeps copies
HarvesterAt(fields) ==
    [settings |-> fields,
     unnormalized_cpu |-> fields.unnormalized_cpu,
     update_time |-> DefaultRateMs,
     message |-> <<>>]

HarvesterInit == harvester = HarvesterAt(DefaultFields)

\* the App that build_app returns
InitApp ==
    /\ eaten = <<>>
    /\ is_working = FALSE /\ tstdout = 0

\* the widget bookkeeping of an App with the categories in used harvested
WidgetsAt(used, frozen) ==
    [phase |-> "idle", handler |-> "none",
     used_widgets |-> used, frozen_state |-> frozen,
     force_update_data |-> {}, force_update |-> {},
     ingested |-> {}, converted |-> {}, drawn |-> FALSE,
     merged |-> FALSE]

WidgetsInit == widgets = WidgetsAt(Categories, FALSE)

\* a widget about to be drawn: present says its state is in its widget-state
\* map; offset and lines are the terminal widget's scroll offset and lines of
\* stdout, height the rows left for them; streak is the uptime widget's
WidgetAt(present, offset, lines, height, streak, days) ==
    [present |-> present, offset |-> offset, lines |-> lines,
     height |-> height, streak |-> streak, days |-> days,
     op |-> "none", outcome |-> "none",
     before |-> [offset |-> offset, streak |-> streak]]

PaintInit == paint = WidgetAt(TRUE, 0, 0, 1, 0, 0)

\* the terminal as main finds it: cooked mode, main screen, cursor shown
TermInit ==
    term = [pc |-> "enter", alternate |-> FALSE, mouse |-> FALSE,
            paste |-> FALSE, raw |-> FALSE, hidden |-> FALSE,
            entered |-> FALSE, frames |-> 0, cleanup |-> "none",
            result |-> "none"]

\* the input thread as it starts: mouse_timer = Instant::now()
DebounceInit ==
    debounce = [now |-> 0, mouse_timer |-> 0, alive |-> TRUE,
                read |-> "none", at |-> 0, sent |-> "", due |-> FALSE,
                scrolls |-> <<>>]

\* ConnectionsWidgetState::new: no rows, sorted by the first column,
\* descending
TableInit ==
    table = [source |-> <<>>, data |-> <<>>,
             sort_index |-> 0, order |-> "Descending",
             current_index |-> 0, widths |-> <<0, 0, 0, 0>>,
             op |-> "none", arg |-> 0, before |-> 0]

\* TerminalWidgetState::default in an expanded terminal widget: one empty
\* input line
PromptInit ==
    prompt = [stdin |-> <<0>>, selected_input |-> 0, input_offset |-> 0,
              is_working |-> FALSE, key |-> "none", outcome |-> "ok",
              recalled |-> FALSE]

\* an idle terminal widget with nothing printed
CommandInit ==
    command = [pc |-> "idle", is_working |-> FALSE, stdout |-> <<>>,
               before |-> <<>>]

\* both mutexes free, MainLoop at recv_timeout, no worker, the producers
\* at the top of their loops
LocksInit ==
    locks = [app |-> "", poisoned |-> FALSE, term |-> "",
             is_terminated |-> FALSE,
             main |-> "recv", todo |-> <<>>,
             worker |-> "idle", wtodo |-> <<>>,
             input |-> "loop", coll |-> "top", clean |-> "lock"]

\* MainLoop running, a widget that is no terminal widget focused, no key
\* handled yet
QuitInit ==
    quit = [terminal |-> FALSE, is_expanded |-> FALSE, is_working |-> FALSE,
            in_search |-> FALSE, line |-> 0,
            code |-> "none", modifiers |-> "none",
            exited |-> FALSE, updated |-> FALSE, drawn |-> FALSE]

\* an empty DataStore at time 0
StoreAt(retention) ==
    [now |-> 0, harvested |-> FALSE, in_flight |-> <<>>,
     timed_data_vec |-> <<>>, retention_ms |-> retention, op |-> "none"]

StoreInit == store = StoreAt(60000)

Init ==
    /\ InitThreads
    /\ InitApp
    /\ HarvesterInit
    /\ WidgetsInit
    /\ StoreInit
    /\ PaintInit
    /\ TermInit
    /\ DebounceInit
    /\ TableInit
    /\ PromptInit
    /\ CommandInit
    /\ LocksInit
    /\ QuitInit

(***************************************************************************)
(* The event channel (std::sync::mpsc): send appends, or fails once the    *)
(* Receiver is gone; recv takes the oldest event.                          *)
(***************************************************************************)
\* sender.send(event) by producer src returning Ok
SendOk(src, kind, key, snap) ==
    /\ rxAlive
    /\ queue' = Append(queue, Event(kind, src, key, snap))
    /\ nsent' = [nsent EXCEPT ![src] = @ + 1]
    /\ UNCHANGED <<nrecv, nfail>>

\* sender.send(event) by producer src returning Err: the Receiver is gone
SendErr(src) ==
    /\ ~rxAlive
    /\ nfail' = [nfail EXCEPT ![src] = IF @ < 2 THEN @ + 1 ELSE @]
    /\ UNCHANGED <<queue, nsent, nrecv>>

\* a receive that takes the newest event instead of the oldest
RecvNewest ==
    /\ queue # <<>>
    /\ queue' = SubSeq(queue, 1, Len(queue) - 1)
    /\ nrecv' = [nrecv EXCEPT ![queue[Len(queue)].src] = @ + 1]
    /\ UNCHANGED <<nsent, nfail>>

\* receiver.recv_timeout(..) returning Ok(recv)
Recv ==
    /\ queue # <<>>
    /\ queue' = Tail(queue)
    /\ nrecv' = [nrecv EXCEPT ![Head(queue).src] = @ + 1]
    /\ UNCHANGED <<nsent, nfail>>

(***************************************************************************)
(* The orchestrating thread: main's event loop and shutdown.               *)
(***************************************************************************)
\* the Ctrl-C handler has stored true to is_terminated and the while
\* condition finds it
MainTerminated ==
    /\ mpc = "loop"
    /\ is_terminated' = TRUE
    /\ mpc' = "exit"
    /\ UNCHANGED <<mresult, termVars, busVars, inputVars, cleanVars, collVars,
                   ctrlVars, workerVars, post>>
    /\ UNCHANGED <<appVars, pureVars>>

\* recv_timeout times out: the loop goes round
MainIdle ==
    /\ mpc = "loop"
    /\ queue = <<>>
    /\ UNCHANGED vars

\* try_drawing(..)?: Ok keeps the loop going, Err restores the terminal and
\* makes main return the error at once
Drawn(ok) ==
    IF ok
    THEN /\ mpc' = "loop"
         /\ UNCHANGED mresult
    ELSE /\ mpc' = "returned"
         /\ mresult' = "err"

\* a send on the control channel; the collection thread owns the Receiver
\* until it returns
CtrlSend(msg) ==
    IF cpc # "done"
    THEN ctrlq' = Append(ctrlq, msg)
    ELSE UNCHANGED ctrlq

\* the application's key handlers may reconfigure the collection thread
AppControl ==
    \/ UNCHANGED ctrlVars
    \/ \E msg \in ControlMsgs \ {[type |-> "Reset", ms |-> 0]} : CtrlSend(msg)

\* an "enter" that spawns a worker whether or not a command is running
SpawnWorkerWhileWorking ==
    /\ is_working' = TRUE
    /\ wpc' = "run"
    /\ wout' = 0
    /\ wlive' = wlive + 1

\* handle_key_event_or_break on "enter" in an expanded terminal widget with
\* a non-empty input line: if no command is running is_working is set and
\* the worker is spawned
SpawnWorker ==
    IF ~is_working
    THEN /\ is_working' = TRUE
         /\ wpc' = "run"
         /\ wout' = 0
         /\ wlive' = wlive + 1
    ELSE UNCHANGED <<workerVars, is_working>>

\* BottomEvent::KeyInput: quit keys break out of the loop, every other key
\* is handled and followed by update_data and a draw
MainKey(e) ==
    \/ /\ e.key \in {"q", "ctrl_c"}
       /\ mpc' = "exit"
       /\ UNCHANGED <<mresult, ctrlVars, workerVars, is_working>>
    \/ /\ e.key = "ctrl_r"
       /\ CtrlSend([type |-> "Reset", ms |-> 0])
       /\ UNCHANGED <<workerVars, is_working>>
       /\ \E ok \in BOOLEAN : Drawn(ok)
    \/ /\ e.key = "enter"
       /\ SpawnWorker
       /\ UNCHANGED ctrlVars
       /\ \E ok \in BOOLEAN : Drawn(ok)
    \/ /\ e.key = "other"
       /\ AppControl
       /\ UNCHANGED <<workerVars, is_working>>
       /\ \E ok \in BOOLEAN : Drawn(ok)

\* one pass of the while loop that receives an event (main.rs 170-515)
MainRecv ==
    /\ mpc = "loop"
    /\ Recv
    /\ LET e == Head(queue) IN
         \/ /\ e.kind = "KeyInput"
            /\ MainKey(e)
            /\ UNCHANGED <<eaten, tstdout>>
         \/ /\ e.kind \in {"Resize", "MouseInput", "PasteEvent"}
            /\ \E ok \in BOOLEAN : Drawn(ok)
            /\ UNCHANGED <<ctrlVars, workerVars, eaten, termWidgetVars>>
         \/ /\ e.kind = "Update"
            /\ eaten' = Append(eaten, e.snap)
            /\ \/ \E ok \in BOOLEAN : Drawn(ok)
               \/ UNCHANGED <<mpc, mresult>>
            /\ UNCHANGED <<ctrlVars, workerVars, termWidgetVars>>
         \/ /\ e.kind = "Clean"
            /\ UNCHANGED <<mpc, mresult, ctrlVars, workerVars, eaten,
                           termWidgetVars>>
    /\ UNCHANGED <<is_terminated, termVars, inputVars, cleanVars, collVars, post>>
    /\ UNCHANGED pureVars

\* the flag set as soon as shutdown is requested, while the loop still runs
MainSetFlagInLoop ==
    /\ mpc \in {"loop", "exit"}
    /\ lockHolder = "none"
    /\ ~flag
    /\ flag' = TRUE
    /\ mpc' = IF mpc = "exit" THEN "notify" ELSE mpc
    /\ UNCHANGED <<mresult, is_terminated, lockHolder, notified, busVars,
                   inputVars, cleanVars, collVars, ctrlVars, workerVars, post>>
    /\ UNCHANGED <<appVars, pureVars>>

\* *thread_termination_lock.lock().unwrap() = true
MainSetFlag ==
    /\ mpc = "exit"
    /\ lockHolder = "none"
    /\ flag' = TRUE
    /\ mpc' = "notify"
    /\ UNCHANGED <<mresult, is_terminated, lockHolder, notified, busVars,
                   inputVars, cleanVars, collVars, ctrlVars, workerVars, post>>
    /\ UNCHANGED <<appVars, pureVars>>

\* thread_termination_cvar.notify_all(): every thread in its wait is woken
MainNotifyAll ==
    /\ mpc = "notify"
    /\ notified' = TRUE
    /\ kpc' = IF kpc = "waiting" THEN "wakeup" ELSE kpc
    /\ cpc' = IF cpc = "waiting" THEN "wakeup" ELSE cpc
    /\ mpc' = "cleanup"
    /\ UNCHANGED <<mresult, is_terminated, flag, lockHolder, busVars, inputVars,
                   kticks, kfalse, ksends, cticks, update_time, data, iter,
                   waitTimeout, iterTime, lastTime, ctrlVars,
                   workerVars, post>>
    /\ UNCHANGED <<appVars, pureVars>>

\* cleanup_terminal(&mut terminal)?; Ok(()): main returns, and its Sender and
\* Receiver are dropped
MainReturn ==
    /\ mpc = "cleanup"
    /\ mpc' = "returned"
    /\ mresult' = "ok"
    /\ UNCHANGED <<is_terminated, termVars, busVars, inputVars, cleanVars,
                   collVars, ctrlVars, workerVars, post>>
    /\ UNCHANGED <<appVars, pureVars>>

(***************************************************************************)
(* The input thread (create_input_thread).                                 *)
(***************************************************************************)
\* an input loop that never looks at the flag
InputCheckNever ==
    /\ ipc = "check"
    /\ ipc' = "poll"
    /\ post' = Began("input")
    /\ UNCHANGED <<mainVars, termVars, busVars, ninput, cleanVars, collVars,
                   ctrlVars, workerVars>>
    /\ UNCHANGED <<appVars, pureVars>>

\* termination_ctrl_lock.try_lock(): the flag is read only if the lock is free
InputCheck ==
    /\ ipc = "check"
    /\ IF lockHolder = "none" /\ flag
       THEN /\ ipc' = "done"
            /\ UNCHANGED post
       ELSE /\ ipc' = "poll"
            /\ post' = Began("input")
    /\ UNCHANGED <<mainVars, termVars, busVars, ninput, cleanVars, collVars,
                   ctrlVars, workerVars>>
    /\ UNCHANGED <<appVars, pureVars>>

\* the BottomEvent a device event is forwarded as, "" if it is dropped; due
\* says that 20 ms have passed since mouse_timer
Forwarded(ev, due) ==
    CASE ev.kind = "Resize" -> "Resize"
      [] ev.kind = "Paste" -> "PasteEvent"
      [] ev.kind = "Key" -> "KeyInput"
      [] ev.kind = "MouseScroll" -> IF due THEN "MouseInput" ELSE ""
      [] ev.kind \in {"MouseDown", "MouseUp"} -> "MouseInput"
      [] OTHER -> ""

\* poll(20 ms) finds nothing: 20 ms have passed
InputPollIdle ==
    /\ ipc = "poll"
    /\ ipc' = "check"
    /\ UNCHANGED <<mainVars, termVars, busVars, ninput, cleanVars, collVars,
                   ctrlVars, workerVars, post>>
    /\ UNCHANGED <<appVars, pureVars>>

\* poll(20 ms) finds an event, read() returns it and it is forwarded
InputPollEvent ==
    /\ ipc = "poll"
    /\ ninput < MaxInput
    /\ ninput' = ninput + 1
    /\ \E ev \in DeviceEvents, due \in BOOLEAN :
         LET kind == Forwarded(ev, due) IN
           IF kind = ""
           THEN /\ ipc' = "check"
                /\ UNCHANGED busVars
           ELSE \/ /\ SendOk("input", kind, ev.key, 0)
                   /\ ipc' = "check"
                \/ /\ SendErr("input")
                   /\ ipc' = "done"
    /\ UNCHANGED <<mainVars, termVars, cleanVars, collVars, ctrlVars, workerVars,
                   post>>
    /\ UNCHANGED <<appVars, pureVars>>

\* poll(20 ms) finds an Enter key, read() returns it and it is forwarded
InputPollEnter ==
    /\ ipc = "poll"
    /\ nsent["input"] + nfail["input"] < MaxEnters
    /\ \/ /\ SendOk("input", "KeyInput", "enter", 0)
          /\ ipc' = "check"
       \/ /\ SendErr("input")
          /\ ipc' = "done"
    /\ UNCHANGED <<mainVars, termVars, ninput, cleanVars, collVars, ctrlVars,
                   workerVars, post>>
    /\ UNCHANGED <<appVars, pureVars>>

\* poll(20 ms) finds Ctrl+R or a key that reconfigures the collection
\* thread, read() returns it and it is forwarded
InputPollControl ==
    /\ ipc = "poll"
    /\ nsent["input"] + nfail["input"] < MaxControlKeys
    /\ \/ \E key \in {"ctrl_r", "other"} :
            /\ SendOk("input", "KeyInput", key, 0)
            /\ ipc' = "check"
       \/ /\ SendErr("input")
          /\ ipc' = "done"
    /\ UNCHANGED <<mainVars, termVars, ninput, cleanVars, collVars, ctrlVars,
                   workerVars, post>>
    /\ UNCHANGED <<appVars, pureVars>>

(***************************************************************************)
(* The cleaning thread (the closure spawned in main).                      *)
(***************************************************************************)
\* cvar.wait_timeout(lock.lock().unwrap(), ..): the lock is taken and
\* released by the wait
CleanWait ==
    /\ kpc = "wait"
    /\ lockHolder = "none"
    /\ kpc' = "waiting"
    /\ post' = Began("clean")
    /\ UNCHANGED <<mainVars, termVars, busVars, inputVars, kticks, kfalse,
                   ksends, collVars, ctrlVars, workerVars>>
    /\ UNCHANGED <<appVars, pureVars>>

\* the wait times out
CleanTimeout ==
    /\ kpc = "waiting"
    /\ kticks < MaxTicks \/ flag
    /\ kpc' = "wakeup"
    /\ kticks' = IF kticks < MaxTicks THEN kticks + 1 ELSE kticks
    /\ UNCHANGED <<mainVars, termVars, busVars, inputVars, kfalse, ksends,
                   collVars, ctrlVars, workerVars, post>>
    /\ UNCHANGED <<appVars, pureVars>>

\* the woken wait takes the lock again and returns the guard
CleanReacquire ==
    /\ kpc = "wakeup"
    /\ lockHolder = "none"
    /\ lockHolder' = "clean"
    /\ kpc' = "woken"
    /\ UNCHANGED <<mainVars, flag, notified, busVars, inputVars, kticks, kfalse,
                   ksends, collVars, ctrlVars, workerVars, post>>
    /\ UNCHANGED <<appVars, pureVars>>

\* a check that sends Clean whatever the flag says
CleanCheckAlwaysSends ==
    /\ kpc = "woken"
    /\ lockHolder' = "none"
    /\ kpc' = "send"
    /\ kfalse' = IF flag THEN kfalse ELSE kfalse + 1
    /\ UNCHANGED <<mainVars, flag, notified, busVars, inputVars, kticks, ksends,
                   collVars, ctrlVars, workerVars, post>>
    /\ UNCHANGED <<appVars, pureVars>>

\* if *(result.0) { break; }, and the guard is dropped
CleanCheck ==
    /\ kpc = "woken"
    /\ lockHolder' = "none"
    /\ IF flag
       THEN /\ kpc' = "done"
            /\ UNCHANGED kfalse
       ELSE /\ kpc' = "send"
            /\ kfalse' = kfalse + 1
    /\ UNCHANGED <<mainVars, flag, notified, busVars, inputVars, kticks, ksends,
                   collVars, ctrlVars, workerVars, post>>
    /\ UNCHANGED <<appVars, pureVars>>

\* cleaning_sender.send(BottomEvent::Clean)
CleanSend ==
    /\ kpc = "send"
    /\ ksends' = ksends + 1
    /\ \/ /\ SendOk("clean", "Clean", "", 0)
          /\ kpc' = "wait"
       \/ /\ SendErr("clean")
          /\ kpc' = "done"
    /\ UNCHANGED <<mainVars, termVars, inputVars, kticks, kfalse, collVars,
                   ctrlVars, workerVars, post>>
    /\ UNCHANGED <<appVars, pureVars>>

(***************************************************************************)
(* The collection thread (create_collection_thread).                       *)
(***************************************************************************)
\* "Check once at the very top": try_lock, and break if the flag is set
CollCheck1 ==
    /\ cpc = "check1"
    /\ IF lockHolder = "none" /\ flag
       THEN /\ cpc' = "done"
            /\ UNCHANGED <<iter, iterTime, post>>
       ELSE /\ cpc' = "ctrl"
            /\ iter' = iter + 1
            /\ iterTime' = 0
            /\ post' = Began("coll")
    /\ UNCHANGED <<mainVars, termVars, busVars, inputVars, cleanVars, cticks,
                   update_time, data, waitTimeout, lastTime, ctrlVars,
                   workerVars>>
    /\ UNCHANGED <<appVars, pureVars>>

\* a match that drops UpdateUpdateTime
ApplyControlIgnored(msg, time) == time

\* the match on a received ThreadControlEvent: the new value of update_time
ApplyControl(msg, time) ==
    IF msg.type = "UpdateUpdateTime" THEN msg.ms ELSE time

\* a poll of the control channel that takes every message there is and
\* applies the last
CollCtrlDrains ==
    /\ cpc = "ctrl"
    /\ cpc' = "harvest"
    /\ IF ctrlq = <<>>
       THEN /\ update_time' = DefaultRateMs
            /\ UNCHANGED <<ctrlq, iterTime, lastTime>>
       ELSE LET msg == ctrlq[Len(ctrlq)] IN
            /\ ctrlq' = <<>>
            /\ update_time' = ApplyControl(msg, DefaultRateMs)
            /\ iterTime' = IF msg.type = "UpdateUpdateTime" THEN msg.ms ELSE 0
            /\ lastTime' = IF msg.type = "UpdateUpdateTime" THEN msg.ms ELSE lastTime
    /\ UNCHANGED <<mainVars, termVars, busVars, inputVars, cleanVars, cticks,
                   data, iter, waitTimeout, workerVars, post>>
    /\ UNCHANGED <<appVars, pureVars>>

\* let mut update_time = update_rate_in_milliseconds, then
\* control_receiver.try_recv() and the match on the message
CollCtrl ==
    /\ cpc = "ctrl"
    /\ cpc' = "harvest"
    /\ IF ctrlq = <<>>
       THEN /\ update_time' = DefaultRateMs
            /\ UNCHANGED <<ctrlq, iterTime, lastTime>>
       ELSE LET msg == Head(ctrlq) IN
            /\ ctrlq' = Tail(ctrlq)
            /\ update_time' = ApplyControl(msg, DefaultRateMs)
            /\ iterTime' = IF msg.type = "UpdateUpdateTime" THEN msg.ms ELSE 0
            /\ lastTime' = IF msg.type = "UpdateUpdateTime" THEN msg.ms ELSE lastTime
    /\ UNCHANGED <<mainVars, termVars, busVars, inputVars, cleanVars, cticks,
                   data, iter, waitTimeout, workerVars, post>>
    /\ UNCHANGED <<appVars, pureVars>>

\* block_on(data_state.update_data()): data_state.data holds this harvest
CollHarvest ==
    /\ cpc = "harvest"
    /\ cpc' = "check2"
    /\ data' = iter
    /\ UNCHANGED <<mainVars, termVars, busVars, inputVars, cleanVars, cticks,
                   update_time, iter, waitTimeout, iterTime, lastTime, ctrlVars,
                   workerVars, post>>
    /\ UNCHANGED <<appVars, pureVars>>

\* a second check that never bails
CollCheck2Never ==
    /\ cpc = "check2"
    /\ cpc' = "send"
    /\ UNCHANGED <<mainVars, termVars, busVars, inputVars, cleanVars, cticks,
                   update_time, data, iter, waitTimeout, iterTime, lastTime,
                   ctrlVars, workerVars, post>>
    /\ UNCHANGED <<appVars, pureVars>>

\* "Yet another check to bail if needed"
CollCheck2 ==
    /\ cpc = "check2"
    /\ cpc' = IF lockHolder = "none" /\ flag THEN "done" ELSE "send"
    /\ UNCHANGED <<mainVars, termVars, busVars, inputVars, cleanVars, cticks,
                   update_time, data, iter, waitTimeout, iterTime, lastTime,
                   ctrlVars, workerVars, post>>
    /\ UNCHANGED <<appVars, pureVars>>

\* a send that leaves the snapshot it handed off in data_state.data
CollSendKeepsData ==
    /\ cpc = "send"
    /\ \/ /\ SendOk("coll", "Update", "", data)
          /\ cpc' = "wait"
       \/ /\ SendErr("coll")
          /\ cpc' = "done"
    /\ UNCHANGED <<mainVars, termVars, inputVars, cleanVars, cticks, update_time, data,
                   iter, waitTimeout, iterTime, lastTime, ctrlVars, workerVars,
                   post>>
    /\ UNCHANGED <<appVars, pureVars>>

\* the snapshot is boxed into an Update, data_state.data is reset, and the
\* event is sent
CollSend ==
    /\ cpc = "send"
    /\ data' = 0
    /\ \/ /\ SendOk("coll", "Update", "", data)
          /\ cpc' = "wait"
       \/ /\ SendErr("coll")
          /\ cpc' = "done"
    /\ UNCHANGED <<mainVars, termVars, inputVars, cleanVars, cticks, update_time,
                   iter, waitTimeout, iterTime, lastTime, ctrlVars, workerVars,
                   post>>
    /\ UNCHANGED <<appVars, pureVars>>

\* termination_ctrl_cvar.wait_timeout(termination_ctrl_lock.lock().unwrap(),
\* Duration::from_millis(update_time))
CollWait ==
    /\ cpc = "wait"
    /\ lockHolder = "none"
    /\ cpc' = "waiting"
    /\ waitTimeout' = update_time
    /\ UNCHANGED <<mainVars, termVars, busVars, inputVars, cleanVars, cticks,
                   update_time, data, iter, iterTime, lastTime, ctrlVars,
                   workerVars, post>>
    /\ UNCHANGED <<appVars, pureVars>>

\* the wait times out
CollTimeout ==
    /\ cpc = "waiting"
    /\ cticks < MaxTicks \/ flag
    /\ cpc' = "wakeup"
    /\ cticks' = IF cticks < MaxTicks THEN cticks + 1 ELSE cticks
    /\ UNCHANGED <<mainVars, termVars, busVars, inputVars, cleanVars,
                   update_time, data, iter, waitTimeout, iterTime, lastTime,
                   ctrlVars, workerVars, post>>
    /\ UNCHANGED <<appVars, pureVars>>

\* the woken wait takes the lock again and returns the guard
CollReacquire ==
    /\ cpc = "wakeup"
    /\ lockHolder = "none"
    /\ lockHolder' = "coll"
    /\ cpc' = "woken"
    /\ UNCHANGED <<mainVars, flag, notified, busVars, inputVars, cleanVars,
                   cticks, update_time, data, iter, waitTimeout, iterTime,
                   lastTime, ctrlVars, workerVars, post>>
    /\ UNCHANGED <<appVars, pureVars>>

\* if *is_terminated { break; } after the wait, and the guard is dropped
CollCheck3 ==
    /\ cpc = "woken"
    /\ lockHolder' = "none"
    /\ cpc' = IF flag THEN "done" ELSE "check1"
    /\ UNCHANGED <<mainVars, flag, notified, busVars, inputVars, cleanVars,
                   cticks, update_time, data, iter, waitTimeout, iterTime,
                   lastTime, ctrlVars, workerVars, post>>
    /\ UNCHANGED <<appVars, pureVars>>

(***************************************************************************)
(* The terminal command worker (the closure spawned on Enter).  Its sends  *)
(* go through a raw pointer to main's Sender and their results through     *)
(* unwrap_unchecked: once the Receiver is gone the behaviour is undefined, *)
(* and the worker either carries on or dies.                               *)
(***************************************************************************)
\* (*self.sender).send(BottomEvent::Resize).unwrap_unchecked(), after which
\* the worker is at next
WorkerSend(next) ==
    /\ \/ /\ SendOk("worker", "Resize", "", 0)
          /\ wpc' = next
       \/ /\ SendErr("worker")
          /\ wpc' \in {next, "crashed"}
    /\ wlive' = IF wpc' \in {"done", "crashed"} THEN wlive - 1 ELSE wlive

\* t.append_output(&buf) in the read loop: the chunk is added to the widget's
\* stdout and a Resize is sent
WorkerAppend ==
    /\ wpc = "run"
    /\ wout < MaxWorkerOut
    /\ wout' = wout + 1
    /\ tstdout' = tstdout + 1
    /\ WorkerSend("run")
    /\ UNCHANGED <<mainVars, termVars, inputVars, cleanVars, collVars, ctrlVars,
                   post>>
    /\ UNCHANGED <<eaten, is_working, pureVars>>

\* the child has exited: t.append_output(&end); t.limit_output()
WorkerEnd ==
    /\ wpc = "run"
    /\ tstdout' = tstdout + 1
    /\ WorkerSend("finish")
    /\ UNCHANGED <<mainVars, termVars, inputVars, cleanVars, collVars, ctrlVars,
                   wout, post>>
    /\ UNCHANGED <<eaten, is_working, pureVars>>

\* t.finish(): is_working is cleared and a Resize is sent
WorkerFinish ==
    /\ wpc = "finish"
    /\ is_working' = FALSE
    /\ WorkerSend("done")
    /\ UNCHANGED <<mainVars, termVars, inputVars, cleanVars, collVars, ctrlVars,
                   wout, post>>
    /\ UNCHANGED <<eaten, tstdout, pureVars>>

(***************************************************************************)
(* The collection thread's harvester configuration (create_collection_     *)
(* thread, the UpdateConfig arm of its match).                             *)
(***************************************************************************)
\* ThreadControlEvent::UpdateConfig(app_config_fields): the four setters
UpdateConfig(h, fields) ==
    [h EXCEPT
       !.settings =
           [temperature_type |-> fields.temperature_type,
            use_current_cpu_total |-> fields.use_current_cpu_total,
            unnormalized_cpu |-> h.unnormalized_cpu,
            show_average_cpu |-> fields.show_average_cpu],
       !.update_time = DefaultRateMs,
       !.message = <<fields>>]

\* the collection thread receives UpdateConfig(fields) and matches on it
CollUpdateConfig ==
    /\ \E fields \in ConfigFields : harvester' = UpdateConfig(harvester, fields)
    /\ UNCHANGED <<threadVars, appVars, widgets, store, paint, term, debounce, table, prompt, command, locks, quit>>

\* the collection thread receives UpdateUpdateTime(new_time): the wait of
\* this iteration, and of this one only, lasts new_time
CollUpdateUpdateTime ==
    /\ \E new_time \in UpdateTimes :
         harvester' = [harvester EXCEPT !.update_time = new_time]
    /\ UNCHANGED <<threadVars, appVars, widgets, store, paint, term, debounce, table, prompt, command, locks, quit>>

\* an iteration of the collection thread that finds no message
CollNoMessage ==
    /\ harvester' = [harvester EXCEPT !.update_time = DefaultRateMs]
    /\ UNCHANGED <<threadVars, appVars, widgets, store, paint, term, debounce, table, prompt, command, locks, quit>>

(***************************************************************************)
(* MainLoop's handling of one event as far as the widget states go: the    *)
(* arm of the match, then update_data, then try_drawing.                   *)
(***************************************************************************)
\* an Update arm that converts and flags whether or not the display is
\* frozen
WidgetsUpdateWhileFrozen ==
    /\ widgets.phase = "idle"
    /\ widgets' =
         [widgets EXCEPT
            !.phase = "marked", !.handler = "update", !.drawn = FALSE,
            !.ingested = {}, !.converted = {}, !.merged = TRUE,
            !.force_update_data =
                @ \cup {w \in TableWidgets :
                          CategoryOf(w) \in widgets.used_widgets}]
    /\ UNCHANGED <<threadVars, appVars, harvester, store, paint, term, debounce, table, prompt, command, locks, quit>>

\* the Update arm up to update_data: eat_data, and unless frozen the
\* conversions and force_data_update() on the disk, temperature and process
\* widget states of the categories in use
WidgetsUpdate ==
    /\ widgets.phase = "idle"
    /\ widgets' =
         IF widgets.frozen_state
         THEN [widgets EXCEPT !.handler = "update", !.drawn = FALSE,
                              !.ingested = {}, !.converted = {},
                              !.merged = TRUE]
         ELSE [widgets EXCEPT
                 !.phase = "marked", !.handler = "update", !.drawn = FALSE,
                 !.ingested = {}, !.converted = {}, !.merged = TRUE,
                 !.force_update_data =
                     @ \cup {w \in TableWidgets :
                               CategoryOf(w) \in widgets.used_widgets}]
    /\ UNCHANGED <<threadVars, appVars, harvester, store, paint, term, debounce, table, prompt, command, locks, quit>>

\* the KeyInput, MouseInput and PasteEvent arms up to update_data: the
\* application's handlers may freeze or unfreeze the display and flag any
\* widget state for an update
WidgetsInput ==
    /\ widgets.phase = "idle"
    /\ \E frozen \in BOOLEAN, flagged \in SUBSET TableWidgets,
          marked \in SUBSET GraphStates :
         widgets' = [widgets EXCEPT
                       !.phase = "marked", !.handler = "input", !.drawn = FALSE,
                       !.ingested = {}, !.converted = {}, !.merged = FALSE,
                       !.frozen_state = frozen,
                       !.force_update_data = flagged,
                       !.force_update = marked]
    /\ UNCHANGED <<threadVars, appVars, harvester, store, paint, term, debounce, table, prompt, command, locks, quit>>

\* a Resize arm that flags the table widgets before the draw
WidgetsResizeMarks ==
    /\ widgets.phase = "idle"
    /\ widgets' = [widgets EXCEPT !.phase = "updated", !.handler = "resize",
                                  !.drawn = FALSE, !.merged = FALSE,
                                  !.ingested = {}, !.converted = {},
                                  !.force_update_data = TableWidgets]
    /\ UNCHANGED <<threadVars, appVars, harvester, store, paint, term, debounce, table, prompt, command, locks, quit>>

\* the Resize arm: nothing but the draw
WidgetsResize ==
    /\ widgets.phase = "idle"
    /\ widgets' = [widgets EXCEPT !.phase = "updated", !.handler = "resize",
                                  !.drawn = FALSE, !.merged = FALSE,
                                  !.ingested = {}, !.converted = {}]
    /\ UNCHANGED <<threadVars, appVars, harvester, store, paint, term, debounce, table, prompt, command, locks, quit>>

\* an update_data that leaves the flag of the temperature widgets set
update_data_keeps_temp(w) ==
    [w EXCEPT !.ingested = w.force_update_data,
              !.converted = w.force_update,
              !.force_update_data = {x \in @ : CategoryOf(x) = "temp"},
              !.force_update = {}]

\* update_data(app): each flagged process, temperature and disk widget
\* state ingests and clears its flag; a cpu, mem or net marker makes the
\* converted data be rebuilt and is cleared
update_data(w) ==
    [w EXCEPT !.ingested = w.force_update_data,
              !.converted = w.force_update,
              !.force_update_data = {},
              !.force_update = {}]

\* update_data as MainLoop calls it after an arm
WidgetsUpdateData ==
    /\ widgets.phase = "marked"
    /\ widgets' = [update_data(widgets) EXCEPT !.phase = "updated"]
    /\ UNCHANGED <<threadVars, appVars, harvester, store, paint, term, debounce, table, prompt, command, locks, quit>>

\* try_drawing(..) at the end of the arm
WidgetsDraw ==
    /\ widgets.phase = "updated"
    /\ widgets' = [widgets EXCEPT !.phase = "idle", !.drawn = TRUE]
    /\ UNCHANGED <<threadVars, appVars, harvester, store, paint, term, debounce, table, prompt, command, locks, quit>>

(***************************************************************************)
(* The DataStore over time: the collection thread harvests timestamped     *)
(* snapshots, MainLoop merges them, evicts on Clean and resets on Ctrl-R.  *)
(***************************************************************************)
\* 10 s pass
StoreTick ==
    /\ store.now < MaxClock * 10000
    /\ store' = [store EXCEPT !.now = @ + 10000, !.harvested = FALSE,
                              !.op = "tick"]
    /\ UNCHANGED <<threadVars, appVars, harvester, widgets, paint, term, debounce, table, prompt, command, locks, quit>>

\* one iteration of the collection thread: a snapshot stamped with the
\* time of its harvest is sent as an Update
StoreHarvest ==
    /\ ~store.harvested
    /\ Len(store.in_flight) < MaxInFlight
    /\ store' = [store EXCEPT !.in_flight = Append(@, store.now),
                              !.harvested = TRUE, !.op = "harvest"]
    /\ UNCHANGED <<threadVars, appVars, harvester, widgets, paint, term, debounce, table, prompt, command, locks, quit>>

\* DataCollection::eat_data: the snapshot becomes the newest point
eat_data(series, timestamp) == Append(series, timestamp)

\* an Update arm that merges the newest snapshot in flight
StoreEatNewest ==
    /\ store.in_flight # <<>>
    /\ store' = [store EXCEPT
                   !.timed_data_vec =
                       eat_data(@, store.in_flight[Len(store.in_flight)]),
                   !.in_flight = SubSeq(@, 1, Len(@) - 1),
                   !.op = "eat"]
    /\ UNCHANGED <<threadVars, appVars, harvester, widgets, paint, term, debounce, table, prompt, command, locks, quit>>

\* the Update arm: the oldest Update in the channel is received and merged
StoreEat ==
    /\ store.in_flight # <<>>
    /\ store' = [store EXCEPT
                   !.timed_data_vec = eat_data(@, Head(store.in_flight)),
                   !.in_flight = Tail(@),
                   !.op = "eat"]
    /\ UNCHANGED <<threadVars, appVars, harvester, widgets, paint, term, debounce, table, prompt, command, locks, quit>>

\* DataCollection::clean_data(max_time_millis) at time now: the oldest
\* point is removed while it is older than max_time_millis
RECURSIVE clean_data(_, _, _)
clean_data(series, now, max_time_millis) ==
    IF series # <<>> /\ now - Head(series) > max_time_millis
    THEN clean_data(Tail(series), now, max_time_millis)
    ELSE series

\* a Clean arm that evicts with the cleaning thread's wait time
StoreCleanWithWaitTime ==
    /\ store' = [store EXCEPT
                   !.timed_data_vec =
                       clean_data(@, store.now, store.retention_ms + 60000),
                   !.op = "clean"]
    /\ UNCHANGED <<threadVars, appVars, harvester, widgets, paint, term, debounce, table, prompt, command, locks, quit>>

\* the Clean arm: clean_data(app_config_fields.retention_ms)
StoreClean ==
    /\ store' = [store EXCEPT
                   !.timed_data_vec = clean_data(@, store.now, store.retention_ms),
                   !.op = "clean"]
    /\ UNCHANGED <<threadVars, appVars, harvester, widgets, paint, term, debounce, table, prompt, command, locks, quit>>

\* Ctrl-R: app.reset() empties data_collection
StoreReset ==
    /\ store' = [store EXCEPT !.timed_data_vec = <<>>, !.op = "reset"]
    /\ UNCHANGED <<threadVars, appVars, harvester, widgets, paint, term, debounce, table, prompt, command, locks, quit>>

(***************************************************************************)
(* Drawing one widget (the Painter's draw routines), and the other users   *)
(* of a widget-state map: the key handler and the command worker.          *)
(***************************************************************************)
\* what an operation on the widget starts from
Begin(op) ==
    [paint EXCEPT !.op = op,
                  !.before = [offset |-> paint.offset, streak |-> paint.streak]]

\* the for loop of draw_terminal_display over the n lines still to visit,
\* newest first: skip is the local offset, len is contents.len(), offset the
\* widget's offset
RECURSIVE ScanLines(_, _, _, _, _)
ScanLines(n, skip, len, offset, height) ==
    IF n = 0
    THEN [len |-> len, offset |-> offset]
    ELSE IF skip > 0 /\ len # height
         THEN ScanLines(n - 1, skip - 1, len, offset, height)
         ELSE IF len + 1 = height
              THEN [len |-> len + 1,
                    offset |-> IF skip > 0 THEN skip ELSE offset]
              ELSE ScanLines(n - 1, 0, len + 1,
                             IF skip > 0 THEN skip ELSE offset, height)

\* the widget's offset when draw_terminal_display returns
TerminalOffset(w) ==
    LET scan == ScanLines(w.lines, w.offset, 0, w.offset, w.height)
    IN  IF scan.offset > 0 /\ scan.len < w.height
        THEN scan.offset - 1
        ELSE scan.offset

\* Painter::draw_terminal_display
DrawTerminal ==
    /\ paint.outcome # "panicked"
    /\ paint' =
         IF paint.present
         THEN [Begin("draw_terminal") EXCEPT !.outcome = "drawn",
                                             !.offset = TerminalOffset(paint)]
         ELSE [Begin("draw_terminal") EXCEPT !.outcome = "skipped"]
    /\ UNCHANGED <<threadVars, appVars, harvester, widgets, store, term, debounce, table, prompt, command, locks, quit>>

\* Painter::draw_uptime_display
DrawUptime ==
    /\ paint.outcome # "panicked"
    /\ paint' =
         IF paint.present
         THEN [Begin("draw_uptime") EXCEPT
                 !.outcome = "drawn",
                 !.streak = IF paint.days > @ THEN paint.days ELSE @]
         ELSE [Begin("draw_uptime") EXCEPT !.outcome = "panicked"]
    /\ UNCHANGED <<threadVars, appVars, harvester, widgets, store, term, debounce, table, prompt, command, locks, quit>>

\* Painter::draw_connections_table
DrawConnections ==
    /\ paint.outcome # "panicked"
    /\ paint' =
         IF paint.present
         THEN [Begin("draw_connections") EXCEPT !.outcome = "drawn"]
         ELSE [Begin("draw_connections") EXCEPT !.outcome = "skipped"]
    /\ UNCHANGED <<threadVars, appVars, harvester, widgets, store, term, debounce, table, prompt, command, locks, quit>>

\* handle_key_event_or_break looking up the current widget among the
\* terminal widget states: PageUp scrolls
HandleKey ==
    /\ paint.outcome # "panicked"
    /\ paint' =
         IF paint.present
         THEN [Begin("key") EXCEPT
                 !.outcome = "handled",
                 !.offset = IF @ < MaxScroll THEN @ + 1 ELSE @]
         ELSE [Begin("key") EXCEPT !.outcome = "skipped"]
    /\ UNCHANGED <<threadVars, appVars, harvester, widgets, store, term, debounce, table, prompt, command, locks, quit>>

\* UnsafeTerminalWidgetState::get_tws, as the command worker calls it
GetTws ==
    /\ paint.outcome # "panicked"
    /\ paint' =
         IF paint.present
         THEN [Begin("get_tws") EXCEPT !.outcome = "found"]
         ELSE [Begin("get_tws") EXCEPT !.outcome = "panicked"]
    /\ UNCHANGED <<threadVars, appVars, harvester, widgets, store, term, debounce, table, prompt, command, locks, quit>>

(***************************************************************************)
(* main and the terminal: set-up, the frames it draws, tear-down.          *)
(***************************************************************************)
\* main returns the error of a failed step with the ? operator
ReturnErr(t) == [t EXCEPT !.pc = "done", !.result = "err"]

\* execute!(stdout_val, EnterAlternateScreen, EnableMouseCapture,
\* EnableBracketedPaste)?: a failure leaves a prefix of the commands done
EnterScreen ==
    /\ term.pc = "enter"
    /\ \/ term' = [term EXCEPT !.pc = "raw", !.alternate = TRUE,
                                !.mouse = TRUE, !.paste = TRUE,
                                !.entered = TRUE]
       \/ \E done \in 0..2 :
            term' = ReturnErr([term EXCEPT !.alternate = done >= 1,
                                           !.mouse = done >= 2,
                                           !.entered = done >= 1])
    /\ UNCHANGED <<threadVars, appVars, harvester, widgets, store, paint, debounce, table, prompt, command, locks, quit>>

\* enable_raw_mode()?
EnableRaw ==
    /\ term.pc = "raw"
    /\ \/ term' = [term EXCEPT !.pc = "new", !.raw = TRUE]
       \/ term' = ReturnErr(term)
    /\ UNCHANGED <<threadVars, appVars, harvester, widgets, store, paint, debounce, table, prompt, command, locks, quit>>

\* Terminal::new(CrosstermBackend::new(stdout_val))?
TerminalNew ==
    /\ term.pc = "new"
    /\ \/ term' = [term EXCEPT !.pc = "clear"]
       \/ term' = ReturnErr(term)
    /\ UNCHANGED <<threadVars, appVars, harvester, widgets, store, paint, debounce, table, prompt, command, locks, quit>>

\* terminal.clear()?
TerminalClear ==
    /\ term.pc = "clear"
    /\ \/ term' = [term EXCEPT !.pc = "hide"]
       \/ term' = ReturnErr(term)
    /\ UNCHANGED <<threadVars, appVars, harvester, widgets, store, paint, debounce, table, prompt, command, locks, quit>>

\* terminal.hide_cursor()?
HideCursor ==
    /\ term.pc = "hide"
    /\ \/ term' = [term EXCEPT !.pc = "handler", !.hidden = TRUE]
       \/ term' = ReturnErr(term)
    /\ UNCHANGED <<threadVars, appVars, harvester, widgets, store, paint, debounce, table, prompt, command, locks, quit>>

\* ctrlc::set_handler(..)?
SetHandler ==
    /\ term.pc = "handler"
    /\ \/ term' = [term EXCEPT !.pc = "loop"]
       \/ term' = ReturnErr(term)
    /\ UNCHANGED <<threadVars, appVars, harvester, widgets, store, paint, debounce, table, prompt, command, locks, quit>>

\* cleanup_terminal: every terminal it can leave behind, with the result it
\* returns; each of its three steps can fail, and a failed execute! leaves a
\* prefix of its commands done
cleanup_terminal(t) ==
    LET cooked == [t EXCEPT !.raw = FALSE]
        left == [cooked EXCEPT !.paste = FALSE, !.mouse = FALSE,
                               !.alternate = FALSE]
    IN  {[t EXCEPT !.cleanup = "failed", !.result = "err"]}
        \cup {[cooked EXCEPT !.paste = @ /\ done < 1,
                             !.mouse = @ /\ done < 2,
                             !.cleanup = "failed", !.result = "err"] :
                 done \in 0..2}
        \cup {[left EXCEPT !.cleanup = "failed", !.result = "err"],
              [left EXCEPT !.hidden = FALSE, !.cleanup = "done",
                           !.result = "ok"]}

\* one frame: try_drawing; a failed draw cleans the terminal up and main
\* returns the error
Frame ==
    /\ term.pc = "loop"
    /\ \/ /\ term.frames < MaxFrames
          /\ term' = [term EXCEPT !.frames = @ + 1]
       \/ \E t \in cleanup_terminal(term) : term' = ReturnErr(t)
    /\ UNCHANGED <<threadVars, appVars, harvester, widgets, store, paint, debounce, table, prompt, command, locks, quit>>

\* the loop ends (termination hook, or a quit key): main cleans the
\* terminal up and returns Ok, or the error of the cleanup
MainEnd ==
    /\ term.pc = "loop"
    /\ \E t \in cleanup_terminal(term) : term' = [t EXCEPT !.pc = "done"]
    /\ UNCHANGED <<threadVars, appVars, harvester, widgets, store, paint, debounce, table, prompt, command, locks, quit>>

(***************************************************************************)
(* The input thread against the clock: what it forwards of what it reads.  *)
(***************************************************************************)
\* time passes
InputTick ==
    /\ debounce.now < MaxInputTicks * InputTickMs
    /\ debounce' = [debounce EXCEPT !.now = @ + InputTickMs]
    /\ UNCHANGED <<threadVars, appVars, harvester, widgets, store, paint, term, table, prompt, command, locks, quit>>

\* the two most recent times a scroll-wheel event was sent
Noted(scrolls, now) ==
    IF scrolls = <<>> THEN <<now>> ELSE <<scrolls[Len(scrolls)], now>>

\* a read that forgets to restart mouse_timer
InputReadKeepsTimer ==
    /\ debounce.alive
    /\ \E kind \in InputKinds, ok \in BOOLEAN :
         LET due == debounce.now - debounce.mouse_timer >= ScrollWindowMs
             sent == Forwarded([kind |-> kind], due)
         IN  debounce' =
               [debounce EXCEPT
                  !.read = kind, !.at = debounce.now, !.due = due,
                  !.sent = sent,
                  !.alive = sent = "" \/ ok,
                  !.scrolls = IF kind = "MouseScroll" /\ sent # "" /\ ok
                              THEN Noted(@, debounce.now) ELSE @]
    /\ UNCHANGED <<threadVars, appVars, harvester, widgets, store, paint, term, table, prompt, command, locks, quit>>

\* poll() finds an event and read() returns it: the match on the event;
\* a failed send ends the thread
InputRead ==
    /\ debounce.alive
    /\ \E kind \in InputKinds, ok \in BOOLEAN :
         LET due == debounce.now - debounce.mouse_timer >= ScrollWindowMs
             sent == Forwarded([kind |-> kind], due)
             scrolled == kind = "MouseScroll" /\ sent # "" /\ ok
         IN  debounce' =
               [debounce EXCEPT
                  !.read = kind, !.at = debounce.now, !.due = due,
                  !.sent = sent,
                  !.alive = sent = "" \/ ok,
                  !.mouse_timer = IF scrolled THEN debounce.now ELSE @,
                  !.scrolls = IF scrolled THEN Noted(@, debounce.now) ELSE @]
    /\ UNCHANGED <<threadVars, appVars, harvester, widgets, store, paint, term, table, prompt, command, locks, quit>>

(***************************************************************************)
(* A connections widget: its rows, their order, the selection and the      *)
(* column widths.                                                          *)
(***************************************************************************)
\* the byte of a character
Code(c) == CHOOSE i \in 1..Len(Alphabet) : Alphabet[i] = c

\* name.split('/').next().unwrap(): the text before the first '/'
RECURSIVE SplitNext(_)
SplitNext(name) ==
    IF name = <<>> \/ Head(name) = "/"
    THEN <<>>
    ELSE <<Head(name)>> \o SplitNext(Tail(name))

\* the digits of text read as a decimal number after acc, -1 if one of
\* them is no digit or the number does not fit a u32
RECURSIVE ParseDigits(_, _)
ParseDigits(text, acc) ==
    IF text = <<>>
    THEN acc
    ELSE IF Head(text) \notin DOMAIN DigitValue
         THEN -1
         ELSE LET digit == DigitValue[Head(text)]
              IN  IF \/ acc > U32MaxDiv10
                     \/ acc = U32MaxDiv10 /\ digit > 5
                  THEN -1
                  ELSE ParseDigits(Tail(text), acc * 10 + digit)

\* text.parse::<u32>().unwrap_or(0)
ParseOrZero(text) ==
    LET parsed == IF text = <<>> THEN -1 ELSE ParseDigits(text, 0)
    IN  IF parsed < 0 THEN 0 ELSE parsed

\* String's partial_cmp: byte by byte, a proper prefix is less
RECURSIVE CmpString(_, _)
CmpString(a, b) ==
    IF a = <<>> THEN (IF b = <<>> THEN "Equal" ELSE "Less")
    ELSE IF b = <<>> THEN "Greater"
    ELSE IF Code(Head(a)) < Code(Head(b)) THEN "Less"
    ELSE IF Code(Head(a)) > Code(Head(b)) THEN "Greater"
    ELSE CmpString(Tail(a), Tail(b))

CmpU32(a, b) ==
    IF a < b THEN "Less" ELSE IF a > b THEN "Greater" ELSE "Equal"

\* Ordering::reverse
Reverse(ordering) ==
    CASE ordering = "Less" -> "Greater"
      [] ordering = "Greater" -> "Less"
      [] OTHER -> "Equal"

\* sort_partial_fn(descending) applied to two keys that compare as
\* ordering: the ordering, reversed if descending
sort_partial_fn(descending, ordering) ==
    IF descending THEN Reverse(ordering) ELSE ordering

\* a closure of sort_data that compares the names as text
CompareText(column, a, b, descending) ==
    LET ordering ==
          CASE column = "Name" -> CmpString(a.name, b.name)
            [] column = "LocalAddress" ->
                 CmpString(a.local_address, b.local_address)
            [] column = "RemoteAddress" ->
                 CmpString(a.remote_address, b.remote_address)
            [] column = "Status" -> CmpString(a.status, b.status)
    IN  sort_partial_fn(descending, ordering)

\* the closure sort_data gives to sort_by for a column:
\* sort_partial_fn(descending) applied to the keys of a and b
Compare(column, a, b, descending) ==
    LET ordering ==
          CASE column = "Name" ->
                 CmpU32(ParseOrZero(SplitNext(a.name)),
                        ParseOrZero(SplitNext(b.name)))
            [] column = "LocalAddress" ->
                 CmpString(a.local_address, b.local_address)
            [] column = "RemoteAddress" ->
                 CmpString(a.remote_address, b.remote_address)
            [] column = "Status" -> CmpString(a.status, b.status)
    IN  sort_partial_fn(descending, ordering)

\* row put before the first row of sorted that is not less than it
RECURSIVE InsertBeforeEqual(_, _, _, _)
InsertBeforeEqual(sorted, row, column, descending) ==
    IF sorted = <<>> THEN <<row>>
    ELSE IF Compare(column, Head(sorted), row, descending) # "Less"
         THEN <<row>> \o sorted
         ELSE <<Head(sorted)>> \o
              InsertBeforeEqual(Tail(sorted), row, column, descending)

\* row put before the first row of sorted that is greater than it
RECURSIVE InsertRow(_, _, _, _)
InsertRow(sorted, row, column, descending) ==
    IF sorted = <<>> THEN <<row>>
    ELSE IF Compare(column, Head(sorted), row, descending) = "Greater"
         THEN <<row>> \o sorted
         ELSE <<Head(sorted)>> \o
              InsertRow(Tail(sorted), row, column, descending)

\* a sort that puts a row before the rows equal to it sorted earlier
RECURSIVE sort_data_unstable(_, _, _)
sort_data_unstable(column, rows, descending) ==
    IF rows = <<>> THEN <<>>
    ELSE InsertBeforeEqual(
             sort_data_unstable(column, SubSeq(rows, 1, Len(rows) - 1),
                                descending),
             rows[Len(rows)], column, descending)

\* ConnectionsWidgetColumn::sort_data: data.sort_by(closure), a stable
\* sort: the rows are put in place one by one in their input order, each
\* after the rows that are not greater
RECURSIVE sort_data(_, _, _)
sort_data(column, rows, descending) ==
    IF rows = <<>> THEN <<>>
    ELSE InsertRow(sort_data(column, SubSeq(rows, 1, Len(rows) - 1),
                             descending),
                   rows[Len(rows)], column, descending)

\* SortDataTable::set_data: the rows are replaced and the selection is
\* clamped to the last row
set_data(t, rows) ==
    [t EXCEPT !.data = rows,
              !.current_index =
                  IF rows = <<>> THEN 0
                  ELSE IF @ > Len(rows) - 1 THEN Len(rows) - 1 ELSE @]

\* an ingest_data that adds the rows to the rows of the table
ingest_data_keeps_rows(t, rows) ==
    set_data(t, sort_data(Columns[t.sort_index + 1], t.data \o rows,
                          t.order = "Descending"))

\* an ingest_data that leaves the selection where it was
ingest_data_unclamped(t, rows) ==
    [t EXCEPT !.data = sort_data(Columns[t.sort_index + 1], rows,
                                 t.order = "Descending")]

\* ConnectionsWidgetState::ingest_data(rows): a copy of rows is sorted by
\* the active column and order and given to set_data
ingest_data(t, rows) ==
    set_data(t, sort_data(Columns[t.sort_index + 1], rows,
                          t.order = "Descending"))

\* a toggle that keeps the order when it changes the column
toggle_sort_keeps_order(t, column_index) ==
    IF column_index = t.sort_index
    THEN [t EXCEPT !.order = IF @ = "Ascending" THEN "Descending"
                             ELSE "Ascending"]
    ELSE [t EXCEPT !.sort_index = column_index]

\* SortDataTable's toggle of the sort on a column: the active column flips
\* its order, another column becomes active in ascending order
toggle_sort(t, column_index) ==
    IF column_index = t.sort_index
    THEN [t EXCEPT !.order = IF @ = "Ascending" THEN "Descending"
                             ELSE "Ascending"]
    ELSE [t EXCEPT !.sort_index = column_index, !.order = "Ascending"]

\* cmp::max
Max(a, b) == IF a >= b THEN a ELSE b

\* a column_widths that keeps the widths of the last row only
column_widths_of_last(rows) ==
    IF rows = <<>> THEN <<0, 0, 0, 0>>
    ELSE LET row == rows[Len(rows)]
         IN  <<Len(row.name) % U16Modulus,
               Len(row.local_address) % U16Modulus,
               Len(row.remote_address) % U16Modulus,
               Len(row.status) % U16Modulus>>

\* ConnectionsWidgetData::column_widths(rows)
RECURSIVE column_widths(_)
column_widths(rows) ==
    IF rows = <<>> THEN <<0, 0, 0, 0>>
    ELSE LET widths == column_widths(SubSeq(rows, 1, Len(rows) - 1))
             row == rows[Len(rows)]
         IN  <<Max(widths[1], Len(row.name) % U16Modulus),
               Max(widths[2], Len(row.local_address) % U16Modulus),
               Max(widths[3], Len(row.remote_address) % U16Modulus),
               Max(widths[4], Len(row.status) % U16Modulus)>>

\* the operation the table starts, what it is given and what it needs to
\* remember of the table before it
Starting(op, arg, before) ==
    [table EXCEPT !.op = op, !.arg = arg, !.before = before]

\* the sequences of at most MaxRows different rows
RowSets ==
    {rows \in UNION {[1..n -> RowPool] : n \in 0..MaxRows} :
       \A i, j \in DOMAIN rows : i # j => rows[i] # rows[j]}

\* an Update arm that ingests the new rows on top of the old ones
TableConvertAppends ==
    /\ \E rows \in RowSets :
         /\ Len(table.data) + Len(rows) <= MaxRows
         /\ table' = ingest_data_keeps_rows(
                         [Starting("convert", 0, table.current_index)
                            EXCEPT !.source = rows],
                         rows)
    /\ UNCHANGED <<threadVars, appVars, harvester, widgets, store, paint, term, debounce, prompt, command, locks, quit>>

\* the Update arm converts the connections of the new snapshot, and
\* update_data gives them to the widget
TableConvert ==
    /\ \E rows \in RowSets :
         table' = ingest_data([Starting("convert", 0, table.current_index)
                                 EXCEPT !.source = rows],
                              rows)
    /\ UNCHANGED <<threadVars, appVars, harvester, widgets, store, paint, term, debounce, prompt, command, locks, quit>>

\* update_data after a key that changes nothing of the table: the rows of
\* converted_data are ingested again
TableIngest ==
    /\ table' = ingest_data(Starting("ingest", 0, table.current_index),
                            table.source)
    /\ UNCHANGED <<threadVars, appVars, harvester, widgets, store, paint, term, debounce, prompt, command, locks, quit>>

\* a key or click toggles the sort on a column, then update_data
TableToggle ==
    /\ \E column_index \in 0..(Len(Columns) - 1) :
         table' = ingest_data(
                     toggle_sort(Starting("toggle", column_index,
                                          <<table.sort_index, table.order>>),
                                 column_index),
                     table.source)
    /\ UNCHANGED <<threadVars, appVars, harvester, widgets, store, paint, term, debounce, prompt, command, locks, quit>>

\* a key or click selects another row, then update_data
TableSelect ==
    /\ \E index \in 0..(Len(table.data) - 1) :
         /\ index # table.current_index
         /\ table' = ingest_data(
                        [Starting("select", index, table.current_index)
                           EXCEPT !.current_index = index],
                        table.source)
    /\ UNCHANGED <<threadVars, appVars, harvester, widgets, store, paint, term, debounce, prompt, command, locks, quit>>

\* draw_connections_table: the table's draw recalculates the column widths
\* if draw_info says so
TableDraw ==
    /\ \E recalculate_column_widths \in BOOLEAN :
         table' = [Starting("draw", recalculate_column_widths, table.widths)
                     EXCEPT !.widths = IF recalculate_column_widths
                                       THEN column_widths(table.data)
                                       ELSE @]
    /\ UNCHANGED <<threadVars, appVars, harvester, widgets, store, paint, term, debounce, prompt, command, locks, quit>>

(***************************************************************************)
(* The input lines of an expanded terminal widget: the keys of             *)
(* handle_key_event_or_break, the worker's stdin() and the draw.           *)
(***************************************************************************)
\* current_input().len()
CurrentLen(t) == t.stdin[t.selected_input + 1]

\* the keys are handled while no command runs and nothing has panicked
CanType == ~prompt.is_working /\ prompt.outcome = "ok"

Pressed(key) == [prompt EXCEPT !.key = key]

\* an Up that goes past the oldest line
KeyUpPastOldest ==
    /\ CanType
    /\ prompt' = [Pressed("Up") EXCEPT !.selected_input = @ + 1]
    /\ UNCHANGED <<threadVars, appVars, harvester, widgets, store, paint, term, debounce, table, command, locks, quit>>

\* Up selects the next older line, if there is one
KeyUp ==
    /\ CanType
    /\ prompt' = IF prompt.selected_input < Len(prompt.stdin) - 1
                 THEN [Pressed("Up") EXCEPT !.selected_input = @ + 1]
                 ELSE Pressed("Up")
    /\ UNCHANGED <<threadVars, appVars, harvester, widgets, store, paint, term, debounce, table, command, locks, quit>>

KeyDown ==
    /\ CanType
    /\ prompt' = IF prompt.selected_input > 0
                 THEN [Pressed("Down") EXCEPT !.selected_input = @ - 1]
                 ELSE Pressed("Down")
    /\ UNCHANGED <<threadVars, appVars, harvester, widgets, store, paint, term, debounce, table, command, locks, quit>>

KeyLeft ==
    /\ CanType
    /\ prompt' = IF prompt.input_offset < CurrentLen(prompt)
                 THEN [Pressed("Left") EXCEPT !.input_offset = @ + 1]
                 ELSE Pressed("Left")
    /\ UNCHANGED <<threadVars, appVars, harvester, widgets, store, paint, term, debounce, table, command, locks, quit>>

KeyRight ==
    /\ CanType
    /\ prompt' = IF prompt.input_offset > 0
                 THEN [Pressed("Right") EXCEPT !.input_offset = @ - 1]
                 ELSE Pressed("Right")
    /\ UNCHANGED <<threadVars, appVars, harvester, widgets, store, paint, term, debounce, table, command, locks, quit>>

\* Enter: the command worker is spawned
KeyEnter ==
    /\ CanType
    /\ prompt' = [Pressed("Enter") EXCEPT !.is_working = TRUE,
                                          !.input_offset = 0]
    /\ UNCHANGED <<threadVars, appVars, harvester, widgets, store, paint, term, debounce, table, command, locks, quit>>

\* Backspace removes the character before the cursor, if there is one
KeyBackspace ==
    /\ CanType
    /\ prompt' = IF CurrentLen(prompt) > prompt.input_offset
                 THEN [Pressed("Backspace") EXCEPT
                         !.stdin[prompt.selected_input + 1] = @ - 1]
                 ELSE Pressed("Backspace")
    /\ UNCHANGED <<threadVars, appVars, harvester, widgets, store, paint, term, debounce, table, command, locks, quit>>

\* a character is inserted at stdin.len() - input_offset: the subtraction
\* overflows, or the insert is out of bounds, if input_offset is greater
KeyChar ==
    /\ CanType
    /\ CurrentLen(prompt) < MaxLine
    /\ prompt' = IF prompt.input_offset > CurrentLen(prompt)
                 THEN [Pressed("Char") EXCEPT !.outcome = "panicked"]
                 ELSE [Pressed("Char") EXCEPT
                         !.stdin[prompt.selected_input + 1] = @ + 1]
    /\ UNCHANGED <<threadVars, appVars, harvester, widgets, store, paint, term, debounce, table, command, locks, quit>>

\* Delete removes the character after the cursor, if there is one
KeyDelete ==
    /\ CanType
    /\ prompt' = IF /\ prompt.input_offset # 0
                    /\ CurrentLen(prompt) >= prompt.input_offset
                 THEN [Pressed("Delete") EXCEPT
                         !.stdin[prompt.selected_input + 1] = @ - 1,
                         !.input_offset = @ - 1]
                 ELSE Pressed("Delete")
    /\ UNCHANGED <<threadVars, appVars, harvester, widgets, store, paint, term, debounce, table, command, locks, quit>>

\* a stdin() that puts the new empty line first and copies nothing
SubmittedWithoutCopy(t) ==
    LET lines == <<0>> \o t.stdin
    IN  IF CurrentLen(t) = 0 THEN t.stdin
        ELSE SubSeq(lines, 1, IF Len(lines) > MaxHistory THEN MaxHistory
                              ELSE Len(lines))

\* the lines after UnsafeTerminalWidgetState::stdin: a line that is not
\* empty takes the place of the first line if it was not the first, a new
\* empty line is put before it, and the oldest lines over the limit go
Submitted(t) ==
    LET line == CurrentLen(t)
        lines == <<0, line>> \o Tail(t.stdin)
    IN  IF line = 0 THEN t.stdin
        ELSE SubSeq(lines, 1, IF Len(lines) > MaxHistory THEN MaxHistory
                              ELSE Len(lines))

\* the command worker: stdin(), the command, finish()
PromptWorker ==
    /\ prompt.is_working /\ prompt.outcome = "ok"
    /\ prompt' = [prompt EXCEPT !.stdin = Submitted(prompt),
                                !.recalled = /\ prompt.selected_input > 0
                                             /\ CurrentLen(prompt) > 0,
                                !.selected_input = 0,
                                !.is_working = FALSE,
                                !.key = "none"]
    /\ UNCHANGED <<threadVars, appVars, harvester, widgets, store, paint, term, debounce, table, command, locks, quit>>

\* draw_terminal_display's input line: cursor = input.len() - input_offset
PromptDraw ==
    /\ CanType
    /\ prompt' = IF prompt.input_offset > CurrentLen(prompt)
                 THEN [Pressed("draw") EXCEPT !.outcome = "panicked"]
                 ELSE Pressed("draw")
    /\ UNCHANGED <<threadVars, appVars, harvester, widgets, store, paint, term, debounce, table, command, locks, quit>>

(***************************************************************************)
(* One command of a terminal widget: the Enter key and the worker thread   *)
(* it spawns (lib.rs 165-200), step by step, with every result its calls   *)
(* can have.                                                               *)
(***************************************************************************)
\* String::len(): the bytes of text
RECURSIVE Bytes(_)
Bytes(text) == IF text = <<>> THEN 0 ELSE Head(text) + Bytes(Tail(text))

\* chars.next() n times, then chars.collect()
RECURSIVE SkipChars(_, _)
SkipChars(text, n) ==
    IF n = 0 \/ text = <<>> THEN text ELSE SkipChars(Tail(text), n - 1)

\* a limit_output that counts the characters to drop from the limit
limit_output_short(text) ==
    IF Bytes(text) > MaxOutputBytes
    THEN SkipChars(text, Bytes(text) - MaxOutputBytes - 1)
    ELSE text

\* limit_output: stdout over the limit loses its first len - limit
\* characters
limit_output(text) ==
    IF Bytes(text) > MaxOutputBytes
    THEN SkipChars(text, Bytes(text) - MaxOutputBytes)
    ELSE text

\* Enter in the expanded, idle terminal widget
CommandEnter ==
    /\ command.pc \in {"idle", "done"}
    /\ ~command.is_working
    /\ command' = [command EXCEPT !.pc = "stdin", !.is_working = TRUE]
    /\ UNCHANGED <<threadVars, appVars, harvester, widgets, store, paint, term, debounce, table, prompt, locks, quit>>

\* t.stdin(): the command line is appended to stdout
CommandStdin ==
    /\ command.pc = "stdin"
    /\ \/ /\ Len(command.stdout) < MaxStdout
          /\ command' = [command EXCEPT !.pc = "spawn",
                                        !.stdout = Append(@, 1)]
       \/ command' = [command EXCEPT !.pc = "spawn"]
    /\ UNCHANGED <<threadVars, appVars, harvester, widgets, store, paint, term, debounce, table, prompt, locks, quit>>

\* Command::new("bash")...spawn().unwrap()
CommandSpawn ==
    /\ command.pc = "spawn"
    /\ \E ok \in BOOLEAN :
         command' = [command EXCEPT !.pc = IF ok THEN "read" ELSE "panicked"]
    /\ UNCHANGED <<threadVars, appVars, harvester, widgets, store, paint, term, debounce, table, prompt, locks, quit>>

\* one round of the read loop: try_wait().unwrap() finds the child
\* running, read(&mut buf).unwrap() gives a byte or none, append_output
CommandRead ==
    /\ command.pc = "read"
    /\ \/ \E width \in CharWidths :
            /\ Len(command.stdout) < MaxStdout
            /\ command' = [command EXCEPT !.stdout = Append(@, width)]
       \/ command' = [command EXCEPT !.pc = "panicked"]
    /\ UNCHANGED <<threadVars, appVars, harvester, widgets, store, paint, term, debounce, table, prompt, locks, quit>>

\* try_wait() finds the child gone: read_to_end(..).unwrap() twice, and
\* append_output(&end)
CommandEnd ==
    /\ command.pc = "read"
    /\ \/ \E width \in CharWidths :
            /\ Len(command.stdout) < MaxStdout
            /\ command' = [command EXCEPT !.pc = "limit",
                                          !.stdout = Append(@, width)]
       \/ command' = [command EXCEPT !.pc = "limit"]
       \/ command' = [command EXCEPT !.pc = "panicked"]
    /\ UNCHANGED <<threadVars, appVars, harvester, widgets, store, paint, term, debounce, table, prompt, locks, quit>>

\* t.limit_output()
CommandLimit ==
    /\ command.pc = "limit"
    /\ command' = [command EXCEPT !.pc = "finish",
                                  !.before = command.stdout,
                                  !.stdout = limit_output(@)]
    /\ UNCHANGED <<threadVars, appVars, harvester, widgets, store, paint, term, debounce, table, prompt, locks, quit>>

\* t.finish()
CommandFinish ==
    /\ command.pc = "finish"
    /\ command' = [command EXCEPT !.pc = "done", !.is_working = FALSE]
    /\ UNCHANGED <<threadVars, appVars, harvester, widgets, store, paint, term, debounce, table, prompt, locks, quit>>

\* F9 in the expanded, idle terminal widget: stdout.clear()
CommandClear ==
    /\ ~command.is_working
    /\ command.stdout # <<>>
    /\ command' = [command EXCEPT !.stdout = <<>>]
    /\ UNCHANGED <<threadVars, appVars, harvester, widgets, store, paint, term, debounce, table, prompt, locks, quit>>

(***************************************************************************)
(* The app mutex and the termination mutex, lock() by lock().  A thread    *)
(* at "lock" has called lock() and has it when the mutex is free; a        *)
(* statement's guard is dropped where the statement ends.                  *)
(***************************************************************************)
\* the statements of MainLoop that lock the app mutex, by event
MainStatements ==
    {<<"widget_id", "app_lock", "update_data", "try_drawing">>,
     <<"try_drawing">>,
     <<"handle_mouse_event", "update_data", "try_drawing">>,
     <<"handle_paste", "update_data", "try_drawing">>,
     <<"eat_data", "is_frozen">>,
     <<"eat_data", "is_frozen", "convert", "for_widget_states",
       "update_data", "try_drawing">>,
     <<"retention_ms", "clean_data">>}

\* the calls of a worker that lock the app mutex: one or two append_output
WorkerStatements ==
    {<<"stdin", "append_output", "limit_output", "finish">>,
     <<"stdin", "append_output", "append_output", "limit_output", "finish">>}

\* recv_timeout gives an event
LocksMainRecv ==
    /\ locks.main = "recv"
    /\ \E stmts \in MainStatements :
         locks' = [locks EXCEPT !.main = "lock", !.todo = stmts]
    /\ UNCHANGED <<threadVars, appVars, harvester, widgets, store, paint, term, debounce, table, prompt, command, quit>>

\* the termination hook has run: the while condition ends the loop
LocksMainTerminated ==
    /\ locks.main = "recv"
    /\ locks' = [locks EXCEPT !.main = "exit"]
    /\ UNCHANGED <<threadVars, appVars, harvester, widgets, store, paint, term, debounce, table, prompt, command, quit>>

\* app.lock().unwrap(): the guard when the mutex is free, a panic when it
\* is poisoned
LocksMainLock ==
    /\ locks.main = "lock"
    /\ locks.app = ""
    /\ locks' = IF locks.poisoned
                THEN [locks EXCEPT !.main = "panicked"]
                ELSE [locks EXCEPT !.main = "held", !.app = "main"]
    /\ UNCHANGED <<threadVars, appVars, harvester, widgets, store, paint, term, debounce, table, prompt, command, quit>>

\* the statement ends and drops its guard, the one that reads
\* current_widget_id as any other
LocksMainDropKeepsId ==
    /\ locks.main = "held"
    /\ \/ locks' = [locks EXCEPT
                       !.app = IF Head(locks.todo) = "widget_id"
                               THEN "main" ELSE "",
                       !.todo = Tail(@),
                       !.main = IF Tail(locks.todo) = <<>>
                                THEN "recv" ELSE "lock"]
       \/ /\ Head(locks.todo) = "app_lock"
          /\ locks.worker \in {"idle", "done"}
          /\ \E calls \in WorkerStatements :
               locks' = [locks EXCEPT !.app = "", !.todo = Tail(@),
                                      !.main = "lock", !.worker = "lock",
                                      !.wtodo = calls]
       \/ /\ Head(locks.todo) \in {"app_lock", "try_drawing"}
          /\ locks' = [locks EXCEPT !.app = "", !.todo = <<>>,
                                    !.main = "exit"]
    /\ UNCHANGED <<threadVars, appVars, harvester, widgets, store, paint, term, debounce, table, prompt, command, quit>>

\* the statement ends and drops its guard.  After the key handler the
\* loop goes on to update_data, or Enter has spawned a worker and the
\* handler returned false, or the handler returned true; after
\* try_drawing an Err leaves the loop's function
LocksMainDrop ==
    /\ locks.main = "held"
    /\ \/ locks' = [locks EXCEPT !.app = "", !.todo = Tail(@),
                                  !.main = IF Tail(locks.todo) = <<>>
                                           THEN "recv" ELSE "lock"]
       \/ /\ Head(locks.todo) = "app_lock"
          /\ locks.worker \in {"idle", "done"}
          /\ \E calls \in WorkerStatements :
               locks' = [locks EXCEPT !.app = "", !.todo = Tail(@),
                                      !.main = "lock", !.worker = "lock",
                                      !.wtodo = calls]
       \/ /\ Head(locks.todo) \in {"app_lock", "try_drawing"}
          /\ locks' = [locks EXCEPT !.app = "", !.todo = <<>>,
                                    !.main = "exit"]
    /\ UNCHANGED <<threadVars, appVars, harvester, widgets, store, paint, term, debounce, table, prompt, command, quit>>

\* *thread_termination_lock.lock().unwrap() = true
LocksMainExitLock ==
    /\ locks.main = "exit"
    /\ locks.term = ""
    /\ locks' = [locks EXCEPT !.main = "exit_held", !.term = "main"]
    /\ UNCHANGED <<threadVars, appVars, harvester, widgets, store, paint, term, debounce, table, prompt, command, quit>>

\* the assignment ends: the guard is dropped, then notify_all
LocksMainExitDrop ==
    /\ locks.main = "exit_held"
    /\ locks' = [locks EXCEPT !.main = "done", !.term = "",
                              !.is_terminated = TRUE,
                              !.coll = IF @ = "wait" THEN "wake" ELSE @,
                              !.clean = IF @ = "wait" THEN "wake" ELSE @]
    /\ UNCHANGED <<threadVars, appVars, harvester, widgets, store, paint, term, debounce, table, prompt, command, quit>>

\* self.lock() in a worker's call
LocksWorkerLock ==
    /\ locks.worker = "lock"
    /\ locks.app = ""
    /\ locks' = IF locks.poisoned
                THEN [locks EXCEPT !.worker = "panicked"]
                ELSE [locks EXCEPT !.worker = "held", !.app = "worker"]
    /\ UNCHANGED <<threadVars, appVars, harvester, widgets, store, paint, term, debounce, table, prompt, command, quit>>

\* the call returns and drops app_lock
LocksWorkerDrop ==
    /\ locks.worker = "held"
    /\ locks' = [locks EXCEPT !.app = "", !.wtodo = Tail(@),
                              !.worker = IF Tail(locks.wtodo) = <<>>
                                         THEN "done" ELSE "lock"]
    /\ UNCHANGED <<threadVars, appVars, harvester, widgets, store, paint, term, debounce, table, prompt, command, quit>>

\* a worker panics: in append_output at strip(output).unwrap(), where the
\* unwinding drops the guard and poisons the mutex, or between two calls
\* at spawn(), try_wait() or a read
LocksWorkerPanic ==
    /\ \/ /\ locks.worker = "held"
          /\ Head(locks.wtodo) = "append_output"
          /\ locks' = [locks EXCEPT !.app = "", !.poisoned = TRUE,
                                    !.worker = "panicked"]
       \/ /\ locks.worker = "lock"
          /\ Head(locks.wtodo) # "stdin"
          /\ locks' = [locks EXCEPT !.worker = "panicked"]
    /\ UNCHANGED <<threadVars, appVars, harvester, widgets, store, paint, term, debounce, table, prompt, command, quit>>

\* termination_ctrl_lock.try_lock() in the input thread and, twice, in
\* the collection thread: the guard, or an Err and on without it
LocksTermTry ==
    /\ \E thread \in {"input", "coll"} :
         /\ locks[thread] \in {"loop", "top", "second"}
         /\ locks' =
              IF locks.term = ""
              THEN [locks EXCEPT ![thread] = IF @ = "loop" THEN "held"
                                            ELSE IF @ = "top" THEN "top_held"
                                            ELSE "second_held",
                                 !.term = thread]
              ELSE [locks EXCEPT ![thread] = IF @ = "loop" THEN "loop"
                                            ELSE IF @ = "top" THEN "second"
                                            ELSE "lock"]
    /\ UNCHANGED <<threadVars, appVars, harvester, widgets, store, paint, term, debounce, table, prompt, command, quit>>

\* the if let that holds the guard ends: break when terminated, else on
\* with the loop
LocksTermDrop ==
    /\ \E thread \in {"input", "coll", "clean"} :
         /\ locks.term = thread
         /\ locks[thread] \in {"held", "top_held", "second_held"}
         /\ locks' = [locks EXCEPT
                        !.term = "",
                        ![thread] =
                            IF locks.is_terminated THEN "done"
                            ELSE IF @ = "top_held" THEN "second"
                            ELSE IF @ = "second_held" THEN "lock"
                            ELSE IF thread = "input" THEN "loop"
                            ELSE IF thread = "coll" THEN "top"
                            ELSE "lock"]
    /\ UNCHANGED <<threadVars, appVars, harvester, widgets, store, paint, term, debounce, table, prompt, command, quit>>

\* lock().unwrap() as the argument of wait_timeout, in the collection
\* thread and in the cleaning thread
LocksTermLock ==
    /\ \E thread \in {"coll", "clean"} :
         /\ locks[thread] = "lock"
         /\ locks.term = ""
         /\ locks' = [locks EXCEPT ![thread] = "locked", !.term = thread]
    /\ UNCHANGED <<threadVars, appVars, harvester, widgets, store, paint, term, debounce, table, prompt, command, quit>>

\* wait_timeout gives the mutex up and waits
LocksTermWait ==
    /\ \E thread \in {"coll", "clean"} :
         /\ locks.term = thread
         /\ locks[thread] = "locked"
         /\ locks' = [locks EXCEPT ![thread] = "wait", !.term = ""]
    /\ UNCHANGED <<threadVars, appVars, harvester, widgets, store, paint, term, debounce, table, prompt, command, quit>>

\* the timeout passes
LocksTermTimeout ==
    /\ \E thread \in {"coll", "clean"} :
         /\ locks[thread] = "wait"
         /\ locks' = [locks EXCEPT ![thread] = "wake"]
    /\ UNCHANGED <<threadVars, appVars, harvester, widgets, store, paint, term, debounce, table, prompt, command, quit>>

\* wait_timeout takes the mutex again before it returns
LocksTermWake ==
    /\ \E thread \in {"coll", "clean"} :
         /\ locks[thread] = "wake"
         /\ locks.term = ""
         /\ locks' = [locks EXCEPT ![thread] = "held", !.term = thread]
    /\ UNCHANGED <<threadVars, appVars, harvester, widgets, store, paint, term, debounce, table, prompt, command, quit>>

(***************************************************************************)
(* The KeyInput arm of MainLoop as far as leaving the loop goes:           *)
(* handle_key_event_or_break's result, then update_data and try_drawing.   *)
(***************************************************************************)
\* the key goes to the input line of the focused terminal widget, and
\* handle_key_event_or_break returns false from there
TypedIn(t, code, modifiers) ==
    /\ t.terminal
    /\ modifiers # "CONTROL"
    /\ code # "Esc"
    /\ t.is_expanded /\ ~t.is_working

\* a handle_key_event_or_break that looks for 'q' before it looks at the
\* focused widget
KeyBreaksOnEveryQ(t, code, modifiers) ==
    \/ modifiers = "none" /\ code = "q" /\ ~t.in_search
    \/ modifiers = "CONTROL" /\ code = "c"

\* handle_key_event_or_break's result: true for 'q' without modifiers
\* outside a search widget, unless the key was typed in, and for Ctrl+C
KeyBreaks(t, code, modifiers) ==
    /\ ~TypedIn(t, code, modifiers)
    /\ \/ modifiers = "none" /\ code = "q" /\ ~t.in_search
       \/ modifiers = "CONTROL" /\ code = "c"

\* what handle_key_event_or_break leaves of the focused widget: Esc in a
\* terminal widget ends is_expanded, a character typed in is inserted
KeyHandled(t, code, modifiers) ==
    IF TypedIn(t, code, modifiers)
    THEN [t EXCEPT !.line = IF @ < MaxLine THEN @ + 1 ELSE @]
    ELSE IF t.terminal /\ modifiers # "CONTROL" /\ code = "Esc"
    THEN [t EXCEPT !.is_expanded = FALSE]
    ELSE t

\* BottomEvent::KeyInput: break if the handler says so, else update_data
\* and try_drawing
QuitKey ==
    /\ ~quit.exited
    /\ \E code \in {"q", "c", "Esc"}, modifiers \in {"none", "CONTROL", "ALT"} :
         LET breaks == KeyBreaks(quit, code, modifiers) IN
         quit' = [KeyHandled(quit, code, modifiers) EXCEPT
                    !.code = code, !.modifiers = modifiers,
                    !.exited = breaks,
                    !.updated = ~breaks, !.drawn = ~breaks]
    /\ UNCHANGED <<threadVars, appVars, harvester, widgets, store, paint, term, debounce, table, prompt, command, locks>>

\* the events between two keys: the focus moves, a terminal widget is
\* expanded, a command starts or ends, a search is opened or closed, the
\* input line is cleared
QuitFocus ==
    /\ ~quit.exited
    /\ \E focused, expanded, working, searching \in BOOLEAN :
         /\ ~(focused /\ searching)
         /\ quit' = [quit EXCEPT
                       !.terminal = focused, !.is_expanded = expanded,
                       !.is_working = working, !.in_search = searching,
                       !.line = 0, !.code = "none", !.modifiers = "none",
                       !.updated = FALSE, !.drawn = FALSE]
    /\ UNCHANGED <<threadVars, appVars, harvester, widgets, store, paint, term, debounce, table, prompt, command, locks>>

(***************************************************************************)
(* The system.                                                             *)
(***************************************************************************)
MainNext ==
    \/ MainTerminated
    \/ MainIdle
    \/ MainRecv
    \/ MainSetFlag
    \/ MainNotifyAll
    \/ MainReturn

InputNext ==
    \/ InputCheck
    \/ InputPollIdle
    \/ InputPollEvent

CleanNext ==
    \/ CleanWait
    \/ CleanTimeout
    \/ CleanReacquire
    \/ CleanCheck
    \/ CleanSend

CollNext ==
    \/ CollCheck1
    \/ CollCtrl
    \/ CollHarvest
    \/ CollCheck2
    \/ CollSend
    \/ CollWait
    \/ CollTimeout
    \/ CollReacquire
    \/ CollCheck3

WorkerNext ==
    \/ WorkerAppend
    \/ WorkerEnd
    \/ WorkerFinish

\* main and the three producer threads
Next ==
    \/ MainNext
    \/ InputNext
    \/ CleanNext
    \/ CollNext

Spec == Init /\ [][Next]_vars

\* main, the input thread and the cleaning thread
NextClean ==
    \/ MainNext
    \/ InputNext
    \/ CleanNext

SpecClean == Init /\ [][NextClean]_vars

\* main, the input thread and the collection thread
NextColl ==
    \/ MainNext
    \/ InputNext
    \/ CollNext

SpecColl == Init /\ [][NextColl]_vars

\* main, the input thread and a terminal command worker
NextWorker ==
    \/ MainNext
    \/ InputNext
    \/ WorkerNext

SpecWorker == Init /\ [][NextWorker]_vars

\* main, an input thread that reads Enter keys, and the command workers
NextEnter ==
    \/ MainNext
    \/ InputCheck
    \/ InputPollEnter
    \/ WorkerNext

SpecEnter == Init /\ [][NextEnter]_vars

\* main, an input thread that reads the keys that reach the control
\* channel, and the collection thread
NextControl ==
    \/ MainNext
    \/ InputCheck
    \/ InputPollControl
    \/ CollNext

\* MainLoop and the collection thread keep being scheduled
FairControl ==
    /\ WF_vars(MainNext)
    /\ WF_vars(CollNext)

SpecControl == Init /\ [][NextControl]_vars /\ FairControl

\* every thread keeps being scheduled, and its blocking calls return
Fairness ==
    /\ WF_vars(MainNext)
    /\ WF_vars(InputCheck \/ InputPollIdle)
    /\ WF_vars(CleanNext)
    /\ WF_vars(CollNext)

\* main and the three producer threads while the input device is quiet
NextQuiet ==
    \/ MainNext
    \/ InputCheck
    \/ InputPollIdle
    \/ CleanNext
    \/ CollNext

SpecQuiet == Init /\ [][NextQuiet]_vars

FairSpec == Init /\ [][NextQuiet]_vars /\ Fairness

\* the collection thread started from any configuration and reconfigured
InitConfig ==
    /\ InitThreads
    /\ InitApp
    /\ WidgetsInit
    /\ StoreInit
    /\ PaintInit
    /\ TermInit
    /\ DebounceInit
    /\ TableInit
    /\ PromptInit
    /\ CommandInit
    /\ LocksInit
    /\ QuitInit
    /\ \E fields \in ConfigFields : harvester = HarvesterAt(fields)

NextConfig ==
    \/ CollUpdateConfig
    \/ CollUpdateUpdateTime
    \/ CollNoMessage

SpecConfig == InitConfig /\ [][NextConfig]_vars

\* MainLoop handling events, for any set of categories in use
InitWidgets ==
    /\ InitThreads
    /\ InitApp
    /\ HarvesterInit
    /\ \E used \in SUBSET Categories, frozen \in BOOLEAN :
         widgets = WidgetsAt(used, frozen)
    /\ StoreInit
    /\ PaintInit
    /\ TermInit
    /\ DebounceInit
    /\ TableInit
    /\ PromptInit
    /\ CommandInit
    /\ LocksInit
    /\ QuitInit

NextWidgets ==
    \/ WidgetsUpdate
    \/ WidgetsInput
    \/ WidgetsResize
    \/ WidgetsUpdateData
    \/ WidgetsDraw

SpecWidgets == InitWidgets /\ [][NextWidgets]_vars

\* the DataStore from startup, for any retention
InitStore ==
    /\ InitThreads
    /\ InitApp
    /\ HarvesterInit
    /\ WidgetsInit
    /\ \E retention \in Retentions : store = StoreAt(retention)
    /\ PaintInit
    /\ TermInit
    /\ DebounceInit
    /\ TableInit
    /\ PromptInit
    /\ CommandInit
    /\ LocksInit
    /\ QuitInit

NextStore ==
    \/ StoreTick
    \/ StoreHarvest
    \/ StoreEat
    \/ StoreClean
    \/ StoreReset

SpecStore == InitStore /\ [][NextStore]_vars

\* one widget, in any state, drawn and handled again and again
InitPaint ==
    /\ InitThreads
    /\ InitApp
    /\ HarvesterInit
    /\ WidgetsInit
    /\ StoreInit
    /\ \E present \in BOOLEAN, offset \in 0..MaxScroll, lines \in 0..MaxScroll,
          height \in 1..MaxScroll, streak \in 0..MaxDays, days \in 0..MaxDays :
         paint = WidgetAt(present, offset, lines, height, streak, days)
    /\ TermInit
    /\ DebounceInit
    /\ TableInit
    /\ PromptInit
    /\ CommandInit
    /\ LocksInit
    /\ QuitInit

NextPaint ==
    \/ DrawTerminal
    \/ DrawUptime
    \/ DrawConnections
    \/ HandleKey
    \/ GetTws

SpecPaint == InitPaint /\ [][NextPaint]_vars

\* main alone, from the first set-up step to its return
InitTerm ==
    /\ InitThreads
    /\ InitApp
    /\ HarvesterInit
    /\ WidgetsInit
    /\ StoreInit
    /\ PaintInit
    /\ TermInit
    /\ DebounceInit
    /\ TableInit
    /\ PromptInit
    /\ CommandInit
    /\ LocksInit
    /\ QuitInit

NextTerm ==
    \/ EnterScreen
    \/ EnableRaw
    \/ TerminalNew
    \/ TerminalClear
    \/ HideCursor
    \/ SetHandler
    \/ Frame
    \/ MainEnd

SpecTerm == InitTerm /\ [][NextTerm]_vars

\* the input thread alone, reading any event at any time
NextDebounce ==
    \/ InputTick
    \/ InputRead

SpecDebounce == Init /\ [][NextDebounce]_vars

\* a connections widget on its own
NextTable ==
    \/ TableConvert
    \/ TableIngest
    \/ TableToggle
    \/ TableSelect

SpecTable == Init /\ [][NextTable]_vars

\* a connections widget with its first sort state, ingesting and drawn
NextTableDraw ==
    \/ TableConvert
    \/ TableDraw

SpecTableDraw == Init /\ [][NextTableDraw]_vars

\* the input lines of a terminal widget on their own
NextPrompt ==
    \/ KeyUp
    \/ KeyDown
    \/ KeyLeft
    \/ KeyRight
    \/ KeyEnter
    \/ KeyBackspace
    \/ KeyChar
    \/ KeyDelete
    \/ PromptWorker
    \/ PromptDraw

SpecPrompt == Init /\ [][NextPrompt]_vars

\* the commands of one terminal widget, one after the other
NextCommand ==
    \/ CommandEnter
    \/ CommandStdin
    \/ CommandSpawn
    \/ CommandRead
    \/ CommandEnd
    \/ CommandLimit
    \/ CommandFinish
    \/ CommandClear

SpecCommand == Init /\ [][NextCommand]_vars

\* the threads at their mutexes
NextLocks ==
    \/ LocksMainRecv
    \/ LocksMainTerminated
    \/ LocksMainLock
    \/ LocksMainDrop
    \/ LocksMainExitLock
    \/ LocksMainExitDrop
    \/ LocksWorkerLock
    \/ LocksWorkerDrop
    \/ LocksWorkerPanic
    \/ LocksTermTry
    \/ LocksTermDrop
    \/ LocksTermLock
    \/ LocksTermWait
    \/ LocksTermTimeout
    \/ LocksTermWake

SpecLocks == Init /\ [][NextLocks]_vars

\* keys and what happens between them
NextQuit ==
    \/ QuitKey
    \/ QuitFocus

SpecQuit == Init /\ [][NextQuit]_vars

(***************************************************************************)
(* Properties.                                                             *)
(***************************************************************************)
\* the events of producer p still in the channel, oldest first
Pending(p) ==
    LET From(e) == e.src = p IN SelectSeq(queue, From)

\* C1: the events of each producer reach MainLoop in the order that producer
\* sent them, none lost, duplicated or overtaken: what is still in the
\* channel from a producer is exactly its sends that MainLoop has not
\* received yet, in send order.
C1_EventOrder ==
    \A p \in Producers :
        /\ Len(Pending(p)) = nsent[p] - nrecv[p]
        /\ \A i \in 1..Len(Pending(p)) : Pending(p)[i].seq = nrecv[p] + i

C1_Witness ==
    /\ nrecv["coll"] = 1
    /\ Len(queue) = 2
    /\ queue[1].src = "clean"
    /\ queue[2].src = "coll"

\* C2: the flag is false while MainLoop runs, and it changes only from false
\* to true, in the step of main that follows the loop.
C2_FlagDiscipline ==
    /\ [](mpc = "loop" => ~flag)
    /\ [][flag' # flag => ~flag /\ flag' /\ mpc = "exit" /\ mpc' = "notify"]_vars

C2_Witness ==
    /\ flag
    /\ mpc = "returned"
    /\ "done" \in {ipc, kpc, cpc}

\* C3: when main has returned, the flag has been set and the broadcast issued.
C3_ExitSetsFlag == mpc = "returned" => flag /\ notified

Begins(t) ==
    CASE t = "input" -> ipc = "check" /\ ipc' = "poll"
      [] t = "coll" -> cpc = "check1" /\ cpc' = "ctrl"
      [] t = "clean" -> kpc = "wait" /\ kpc' = "waiting"

\* C5: after the broadcast no producer thread begins a second loop iteration,
\* and the broadcast wakes every thread that is in its timed wait.
C5_NoSecondIteration ==
    /\ [][\A t \in post : ~Begins(t)]_vars
    /\ [][~notified /\ notified' =>
            /\ kpc = "waiting" => kpc' = "wakeup"
            /\ cpc = "waiting" => cpc' = "wakeup"]_vars

\* C6: the cleaning thread calls send once for every return of its wait that
\* found the flag false, and a return that finds the flag true ends it.
C6_OneCleanPerWake ==
    /\ [](ksends + (IF kpc = "send" THEN 1 ELSE 0) = kfalse)
    /\ [](nsent["clean"] + nfail["clean"] = ksends)
    /\ [][kpc = "woken" /\ flag => kpc' \in {"woken", "done"}]_vars
    /\ [][kpc = "done" => kpc' = "done" /\ ksends' = ksends]_vars

C6_Witness ==
    /\ kfalse = 1 /\ ksends = 1 /\ nsent["clean"] = 1
    /\ flag /\ kpc = "done"

\* where the loop of producer p stands
PcOf(p) ==
    CASE p = "input" -> ipc
      [] p = "coll" -> cpc
      [] p = "clean" -> kpc
      [] p = "worker" -> wpc

CollOrder ==
    {<<"check1", "ctrl">>, <<"check1", "done">>, <<"ctrl", "harvest">>,
     <<"harvest", "check2">>, <<"check2", "send">>, <<"check2", "done">>,
     <<"send", "wait">>, <<"send", "done">>, <<"wait", "waiting">>,
     <<"waiting", "wakeup">>, <<"wakeup", "woken">>, <<"woken", "check1">>,
     <<"woken", "done">>}

\* C8: the collection thread goes through check, control poll, harvest,
\* check, send, wait in this order; what it sends is the harvest of the
\* iteration it is in; a check that sees the flag ends the thread with
\* nothing sent.
C8_IterationOrder ==
    /\ [][cpc' # cpc => <<cpc, cpc'>> \in CollOrder]_vars
    /\ [](cpc = "send" => data = iter /\ data > 0)
    /\ [](\A i \in 1..Len(queue) :
            queue[i].kind = "Update" => queue[i].snap = queue[i].seq)
    /\ [][(cpc \in {"check1", "check2"}) /\ lockHolder = "none" /\ flag
            /\ cpc' # cpc => cpc' = "done" /\ nsent' = nsent]_vars

C8_Witness ==
    /\ cpc = "waiting"
    /\ iter = 2
    /\ nsent["coll"] = 2

\* C9: the wait of an iteration that received UpdateUpdateTime(ms) is given
\* ms as its timeout.
C9_SameIterationWait ==
    cpc = "waiting" /\ iterTime # 0 => waitTimeout = iterTime

C9_Witness ==
    /\ cpc = "waiting"
    /\ iterTime = 5000
    /\ waitTimeout = 5000

\* C10: every wait after UpdateUpdateTime(ms) was received is given ms as its
\* timeout, until another UpdateUpdateTime is received.
C10_LaterWaits ==
    cpc = "waiting" /\ lastTime # 0 => waitTimeout = lastTime

\* C11: once the collection thread has processed UpdateConfig(fields), the
\* temperature type, use_current_cpu_total, unnormalized_cpu and
\* show_average_cpu of the harvester are those of fields.
C11_ConfigApplied ==
    harvester.message # <<>> => harvester.settings = harvester.message[1]

\* the snapshots carried by the Update events still in the channel
InFlight == {queue[i].snap : i \in {k \in 1..Len(queue) : queue[k].kind = "Update"}}

\* C12: every snapshot sent is in exactly one place, an Update in the channel
\* or the DataStore, and is merged at most once, by MainLoop processing that
\* Update; the collection thread holds an empty snapshot from its send to
\* its next harvest.
C12_SnapshotHandOff ==
    /\ [](\A i, j \in 1..Len(eaten) : i # j => eaten[i] # eaten[j])
    /\ [](\A i, j \in 1..Len(queue) :
            i # j /\ queue[i].kind = "Update" /\ queue[j].kind = "Update"
                => queue[i].snap # queue[j].snap)
    /\ [](\A n \in 1..nsent["coll"] :
            (n \in InFlight) # (\E i \in 1..Len(eaten) : eaten[i] = n))
    /\ []((cpc \in {"wait", "waiting", "wakeup", "woken", "check1", "ctrl",
                    "harvest"}) => data = 0)
    /\ [][eaten' # eaten =>
            /\ mpc = "loop" /\ queue # <<>> /\ Head(queue).kind = "Update"
            /\ eaten' = Append(eaten, Head(queue).snap)]_vars

C12_Witness ==
    /\ eaten = <<1, 2>>
    /\ cpc = "waiting"
    /\ data = 0

\* C13: the application state changes only in steps in which MainLoop
\* processes an event; no background thread writes it.
C13_MainLoopOwnsState ==
    [][<<eaten, termWidgetVars>>' # <<eaten, termWidgetVars>>
         => mpc = "loop" /\ nrecv' # nrecv]_vars

\* the widget states and graph states flagged as needing an update
Dirty == widgets.force_update_data \cup widgets.force_update

\* C14: when MainLoop has merged an Update and marked, the states flagged
\* dirty are exactly those whose category is in used_widgets; and an Update
\* that has been processed has been followed by a redraw.
C14_UpdateMarksUsed ==
    /\ widgets.handler = "update" /\ widgets.phase = "marked"
         => Dirty = {w \in TableWidgets \cup GraphStates :
                       CategoryOf(w) \in widgets.used_widgets}
    /\ widgets.handler = "update" /\ widgets.phase = "idle" => widgets.drawn

\* C15: update_data makes exactly the flagged process, temperature and disk
\* widget states ingest, and when it has returned no such flag and no cpu,
\* mem or net marker is set.
C15_UpdateDataClears ==
    /\ [][widgets.phase = "marked" /\ widgets'.phase = "updated"
            => /\ widgets'.ingested = widgets.force_update_data
               /\ widgets'.force_update_data = {}
               /\ widgets'.force_update = {}]_vars
    /\ [](widgets.phase = "updated" /\ widgets.handler # "resize"
            => widgets.force_update_data = {} /\ widgets.force_update = {})

C15_Witness ==
    /\ widgets.phase = "updated"
    /\ widgets.ingested = {"proc1", "disk1"}
    /\ widgets.converted = {"cpu"}
    /\ Dirty = {}

\* C16: a Clean evicts with the configured retention_ms: it leaves exactly
\* the points whose age at that time is at most retention_ms (all of them,
\* or none, if so), in their order.
C16_Retention ==
    /\ [](store.op = "clean" =>
            \A i \in 1..Len(store.timed_data_vec) :
                store.now - store.timed_data_vec[i] <= store.retention_ms)
    /\ [][store'.op = "clean" /\ store' # store =>
            LET Fresh(t) == store.now - t <= store.retention_ms
            IN  store'.timed_data_vec = SelectSeq(store.timed_data_vec, Fresh)]_vars

C16_Witness ==
    /\ store.op = "clean"
    /\ store.retention_ms = 60000
    /\ store.now = 70000
    /\ store.timed_data_vec = <<10000, 20000, 30000, 40000, 50000, 60000, 70000>>

\* C17: the timestamps of the TimeSeries are strictly increasing from the
\* oldest point to the newest.
C17_Ordered ==
    \A i, j \in 1..Len(store.timed_data_vec) :
        i < j => store.timed_data_vec[i] < store.timed_data_vec[j]

C17_Witness ==
    /\ store.op = "eat"
    /\ Len(store.timed_data_vec) = 2
    /\ store.timed_data_vec[1] > 0
    /\ store.in_flight # <<>>

\* C18: when the widget's state is missing from its map, whatever is done
\* with the widget is skipped, and nothing panics.
C18_MissingStateSkipped ==
    ~paint.present => paint.outcome \in {"none", "skipped"}

\* C19: whenever main has returned an error after the terminal entered the
\* alternate screen or raw mode, cleanup_terminal has run before.
C19_ErrorAfterCleanup ==
    (term.result = "err" /\ (term.entered \/ term.raw)) =>
        term.cleanup # "none"

\* C20: a draw leaves the widget's state as it was: the terminal widget's
\* scroll offset and the uptime widget's streak are unchanged.
C20_DrawKeepsState ==
    paint.outcome = "drawn" =>
        /\ paint.offset = paint.before.offset
        /\ paint.streak = paint.before.streak

\* the BottomEvent that corresponds to an input event
Corresponding(kind) ==
    CASE kind = "Resize" -> "Resize"
      [] kind = "Key" -> "KeyInput"
      [] kind = "Paste" -> "PasteEvent"
      [] kind \in {"MouseScroll", "MouseDown", "MouseUp", "MouseMoved",
                   "MouseDrag"} -> "MouseInput"
      [] OTHER -> ""

\* C21: every resize, key, paste and mouse event the input thread reads,
\* apart from a scroll-wheel event inside the debounce window, is sent as
\* the corresponding event.
C21_AllInputForwarded ==
    (/\ debounce.read \notin {"none", "FocusGained"}
     /\ ~(debounce.read = "MouseScroll" /\ ~debounce.due)) =>
        debounce.sent = Corresponding(debounce.read)

\* the last read sent a scroll-wheel event
Scrolled ==
    debounce.read = "MouseScroll" /\ debounce.sent # "" /\ debounce.alive

\* when the last scroll-wheel event before the last read was sent: 0, the
\* start of the thread, if there was none
LastScroll ==
    IF Scrolled
    THEN IF Len(debounce.scrolls) = 2 THEN debounce.scrolls[1] ELSE 0
    ELSE IF debounce.scrolls = <<>> THEN 0
         ELSE debounce.scrolls[Len(debounce.scrolls)]

\* C22: a scroll-wheel event is sent exactly when 20 ms have passed since
\* the last one sent (or since the thread started), two sent scroll-wheel
\* events are at least 20 ms apart, and other events are sent whatever the
\* timer says and leave it alone.
C22_ScrollDebounce ==
    /\ debounce.read = "MouseScroll" =>
          (debounce.sent = "MouseInput" <=>
             debounce.at - LastScroll >= ScrollWindowMs)
    /\ Len(debounce.scrolls) = 2 =>
          debounce.scrolls[2] - debounce.scrolls[1] >= ScrollWindowMs
    /\ debounce.mouse_timer =
          IF debounce.scrolls = <<>> THEN 0
          ELSE debounce.scrolls[Len(debounce.scrolls)]
    /\ debounce.read \in {"Resize", "Key", "Paste", "MouseDown", "MouseUp"} =>
          debounce.sent = Corresponding(debounce.read)

C22_Witness ==
    /\ debounce.read = "Key" /\ debounce.sent = "KeyInput" /\ ~debounce.due
    /\ debounce.scrolls = <<ScrollWindowMs, 2 * ScrollWindowMs>>

\* C23: handling a Resize event ends in a draw, frozen or not, and changes
\* neither the DataStore nor a dirty flag or marker.
C23_ResizeRedraws ==
    [][widgets'.handler = "resize" =>
         /\ widgets'.force_update_data = widgets.force_update_data
         /\ widgets'.force_update = widgets.force_update
         /\ widgets'.frozen_state = widgets.frozen_state
         /\ widgets'.ingested = {} /\ widgets'.converted = {}
         /\ <<eaten, store>>' = <<eaten, store>>
         /\ widgets'.phase \in {"updated", "idle"}
         /\ widgets'.phase = "idle" => widgets'.drawn]_vars

C23_Witness ==
    /\ widgets.handler = "resize" /\ widgets.phase = "idle"
    /\ widgets.drawn /\ widgets.frozen_state

\* the number before the first '/' of each name in RowPool, 0 if there is
\* none
IdOf(row) ==
    CASE row = Row1234 -> 1234
      [] row = Row55 -> 55
      [] row = Row55Other -> 55
      [] row = RowNoId -> 0

\* C24: with the Name column active the rows are in the order of the
\* numbers before the first '/' of their names, a name without one counting
\* as 0: descending, "1234/proc" comes before "55/proc".
C24_NameNumeric ==
    table.sort_index = 0 =>
        \A i, j \in DOMAIN table.data :
            i < j =>
                IF table.order = "Descending"
                THEN IdOf(table.data[i]) >= IdOf(table.data[j])
                ELSE IdOf(table.data[i]) <= IdOf(table.data[j])

C24_Witness ==
    /\ table.sort_index = 0 /\ table.order = "Descending"
    /\ table.source = <<RowNoId, Row55, Row1234>>
    /\ table.data = <<Row1234, Row55, RowNoId>>

\* where row is in rows
Position(rows, row) == CHOOSE i \in DOMAIN rows : rows[i] = row

\* rows with equal keys are in their input order
Stable(t) ==
    \A i, j \in DOMAIN t.data :
        (/\ i < j
         /\ Compare(Columns[t.sort_index + 1], t.data[i], t.data[j],
                    t.order = "Descending") = "Equal") =>
            Position(t.source, t.data[i]) < Position(t.source, t.data[j])

\* C25: the sort is stable for every column and both orders, and ingesting
\* the same rows again with the same sort column and order gives the same
\* order of rows.
C25_StableSort ==
    [][/\ Stable(table')
       /\ (/\ table'.source = table.source
           /\ table'.sort_index = table.sort_index
           /\ table'.order = table.order) => table'.data = table.data]_vars

C25_Witness ==
    /\ table.op = "ingest"
    /\ table.sort_index = 0 /\ table.order = "Descending"
    /\ table.source = <<Row55Other, Row1234, Row55>>
    /\ table.data = <<Row1234, Row55Other, Row55>>

\* the rows of t are in the order of its active column and order
Sorted(t) ==
    \A i, j \in DOMAIN t.data :
        i < j => Compare(Columns[t.sort_index + 1], t.data[i], t.data[j],
                         t.order = "Descending") # "Greater"

\* how many times row is in rows
Count(rows, row) == Cardinality({i \in DOMAIN rows : rows[i] = row})

\* C26: after an ingest the table's rows are a permutation of the rows
\* given, in the order of the active column and order, and the rows given
\* are as they were.
C26_IngestReplaces ==
    [][/\ \A row \in RowPool :
            Count(table'.data, row) = Count(table'.source, row)
       /\ Sorted(table')
       /\ table'.op # "convert" => table'.source = table.source]_vars

C26_Witness ==
    /\ table.op = "convert" /\ table.before = 2
    /\ table.source = <<RowNoId, Row1234>>
    /\ table.data = <<Row1234, RowNoId>>

\* C27: a toggle on a column that is not active makes it active, ascending;
\* a toggle on the active column flips the order; two toggles in a row on
\* the active column give back the order before them.
C27_ToggleSort ==
    [][table'.op = "toggle" =>
         /\ IF table'.arg = table.sort_index
            THEN /\ table'.sort_index = table.sort_index
                 /\ table'.order # table.order
                 /\ table'.order \in SortOrders
            ELSE /\ table'.sort_index = table'.arg
                 /\ table'.order = "Ascending"
         /\ (/\ table.op = "toggle"
             /\ table.arg = table.before[1]
             /\ table'.arg = table.sort_index) =>
                <<table'.sort_index, table'.order>> = table.before]_vars

C27_Witness ==
    /\ table.op = "toggle" /\ table.arg = 1
    /\ table.before = <<1, "Ascending">>
    /\ table.sort_index = 1 /\ table.order = "Descending"

\* C28: the selection is a row of the table, or 0 if there is none; when
\* the rows ingested are not more than the selection before, the selection
\* becomes the last row, or 0 if there is none.
C28_SelectionClamped ==
    /\ table.current_index >= 0
    /\ table.current_index < Max(Len(table.data), 1)
    /\ (/\ table.op \in {"convert", "ingest"}
        /\ Len(table.data) <= table.before) =>
           table.current_index = Max(Len(table.data), 1) - 1

C28_Witness ==
    /\ table.op = "convert" /\ table.before = 2
    /\ Len(table.data) = 2 /\ table.current_index = 1

\* the greatest length of the field of rows that field_of gives, 0 if rows
\* is empty
Widest(rows, field) ==
    LET lengths == {Len(rows[i][field]) : i \in DOMAIN rows}
    IN  IF lengths = {} THEN 0
        ELSE CHOOSE m \in lengths : \A n \in lengths : n <= m

\* C29: a draw told to recalculate leaves four widths, each the greatest
\* length of its column's field over the rows, all 0 without rows; nothing
\* else changes the widths.
C29_ColumnWidths ==
    [][IF table'.op = "draw" /\ table'.arg
       THEN table'.widths =
              <<Widest(table'.data, "name"),
                Widest(table'.data, "local_address"),
                Widest(table'.data, "remote_address"),
                Widest(table'.data, "status")>>
       ELSE table'.widths = table.widths]_vars

C29_Witness ==
    /\ table.op = "draw" /\ table.arg = TRUE
    /\ table.before = <<0, 0, 0, 0>>
    /\ table.data = <<Row55, RowNoId>>
    /\ table.widths = <<7, 2, 1, 2>>

\* C30: input_offset is never greater than the length of the selected input
\* line, so the cursor computation len - input_offset never fails.
C30_OffsetInLine ==
    /\ prompt.input_offset <= CurrentLen(prompt)
    /\ prompt.outcome # "panicked"

\* C31: a terminal widget has at most one command worker at a time: a
\* worker is spawned only while is_working is false, which the spawning key
\* handler sets to true, and only the worker's finish() makes it false.
C31_OneWorker ==
    [][/\ wlive' <= 1
       /\ wlive' > wlive => ~is_working /\ is_working' /\ mpc = "loop"
       /\ (is_working /\ ~is_working') => wpc = "finish" /\ wlive' < wlive
       /\ wpc' \in {"run", "finish"} => is_working' /\ wlive' = 1]_vars

C31_Witness ==
    /\ wpc = "run" /\ wlive = 1 /\ is_working
    /\ nrecv["input"] = 2 /\ nsent["worker"] >= 2

\* C32: a command that has ended, however it ended, leaves is_working
\* false.
C32_WorkingEnds ==
    command.pc \in {"done", "panicked"} => ~command.is_working

\* text is what is left of whole after its first characters are dropped
IsSuffix(text, whole) ==
    /\ Len(text) <= Len(whole)
    /\ text = SubSeq(whole, Len(whole) - Len(text) + 1, Len(whole))

\* C40: after limit_output stdout is a suffix of what it was, no longer
\* than the limit, and the same if it was within the limit.
C40_LimitOutput ==
    command.pc = "finish" =>
        /\ IsSuffix(command.stdout, command.before)
        /\ Bytes(command.stdout) <= MaxOutputBytes
        /\ Bytes(command.before) <= MaxOutputBytes =>
              command.stdout = command.before

C40_Witness ==
    /\ command.pc = "finish"
    /\ command.before = <<1, 3, 1, 3>>
    /\ command.stdout = <<>>

\* the thread is inside lock() of the app mutex
WaitsApp(thread) == locks[thread] = "lock"

\* the thread is inside lock() of the termination mutex, or inside
\* wait_timeout taking it again
WaitsTerm(thread) ==
    \/ thread = "main" /\ locks.main = "exit"
    \/ thread \in {"coll", "clean"} /\ locks[thread] \in {"lock", "wake"}

\* the step with which the holder of a mutex gives it up
Gives(holder) ==
    CASE holder = "main" -> LocksMainDrop \/ LocksMainExitDrop
      [] holder = "worker" -> LocksWorkerDrop
      [] holder \in {"input", "coll", "clean"} ->
             LocksTermDrop \/ LocksTermWait
      [] OTHER -> FALSE

\* C33: no thread calls lock() on the app mutex while it holds it, a
\* thread inside lock() of either mutex waits for a holder that can give
\* the mutex up, and a held mutex has a holder that is about to.
C33_NoDeadlock ==
    /\ \A thread \in {"main", "worker"} :
         WaitsApp(thread) =>
            /\ locks.app # thread
            /\ locks.app # "" => ENABLED Gives(locks.app)
    /\ \A thread \in {"main", "coll", "clean"} :
         WaitsTerm(thread) =>
            /\ locks.term # thread
            /\ locks.term # "" => ENABLED Gives(locks.term)
    /\ locks.app # "" => ~WaitsTerm(locks.app)
    /\ locks.term # "" => ~WaitsApp(locks.term)

C33_Witness ==
    /\ WaitsApp("main") /\ locks.app = "worker"
    /\ WaitsTerm("coll") /\ locks.term = "clean"

\* a Reset is on the control channel: MainLoop has handled Ctrl+R and the
\* collection thread has not yet received the message
ResetPending == \E i \in 1..Len(ctrlq) : ctrlq[i].type = "Reset"

\* C34: no Update is merged between MainLoop's handling of Ctrl+R and the
\* collection thread's processing of the Reset; such an Update carries a
\* snapshot harvested before the reset.
C34_NoStaleMerge ==
    [][eaten' # eaten => ~ResetPending]_vars

\* the collection thread is in the last wait the tick bound lets return
LastWait == cpc = "waiting" /\ cticks = MaxTicks /\ ~flag

\* C35: the control channel loses only its first message, and only in an
\* iteration's one poll, which a harvest follows before the next poll; a
\* send adds at the end; and a message in the channel is received unless
\* the thread ends first.
C35_ControlInOrder ==
    /\ [][Len(ctrlq') < Len(ctrlq) =>
            /\ cpc = "ctrl" /\ cpc' = "harvest"
            /\ ctrlq' = Tail(ctrlq)]_vars
    /\ [][Len(ctrlq') >= Len(ctrlq) /\ ctrlq' # ctrlq =>
            /\ cpc' = cpc
            /\ \E msg \in ControlMsgs : ctrlq' = Append(ctrlq, msg)]_vars
    /\ [][cpc' = "ctrl" /\ cpc # "ctrl" =>
            cpc = "check1" /\ iter' = iter + 1]_vars
    /\ [][cpc = "harvest" /\ cpc' # cpc =>
            data' = iter /\ ctrlq' = ctrlq]_vars
    /\ (ctrlq # <<>>) ~> (ctrlq = <<>> \/ cpc = "done" \/ LastWait)

C35_Witness ==
    /\ cpc = "harvest" /\ iter = 2
    /\ nrecv["input"] = 2
    /\ lastTime # 0 /\ iterTime = 0
    /\ ctrlq = <<>>
    /\ \E i \in 1..Len(queue) : queue[i].kind = "Update" /\ queue[i].snap = 1

\* C36: with the display frozen the Update arm merges the snapshot and
\* that is all: no flag or marker is set, nothing is ingested or converted
\* and nothing is drawn; a frozen display is drawn only in the handling of
\* a key, mouse, paste or resize event.
C36_FrozenUpdate ==
    /\ [][widgets.frozen_state /\ widgets'.handler = "update"
            /\ widgets' # widgets =>
              /\ widgets'.merged
              /\ widgets'.force_update_data = widgets.force_update_data
              /\ widgets'.force_update = widgets.force_update
              /\ widgets'.ingested = {} /\ widgets'.converted = {}
              /\ widgets'.phase = "idle" /\ ~widgets'.drawn
              /\ widgets'.frozen_state]_vars
    /\ [][widgets.frozen_state /\ widgets'.drawn /\ ~widgets.drawn =>
              widgets.handler \in {"input", "resize"}]_vars
    /\ [][widgets.frozen_state
            /\ <<widgets'.ingested, widgets'.converted>> # <<{}, {}>>
            /\ <<widgets'.ingested, widgets'.converted>>
                  # <<widgets.ingested, widgets.converted>> =>
              widgets.handler = "input"]_vars

C36_Witness ==
    /\ widgets.frozen_state /\ widgets.handler = "update"
    /\ widgets.merged /\ widgets.phase = "idle" /\ ~widgets.drawn
    /\ widgets.force_update_data = {} /\ widgets.force_update = {}

\* C37: the input history is never empty, selected_input is an index
\* into it, and it holds no more lines than the limit.
C37_HistoryIndex ==
    /\ Len(prompt.stdin) >= 1
    /\ prompt.selected_input < Len(prompt.stdin)
    /\ Len(prompt.stdin) <= MaxHistory

C37_Witness ==
    /\ Len(prompt.stdin) = MaxHistory
    /\ prompt.selected_input = MaxHistory - 1
    /\ prompt.key = "Up"
    /\ prompt.recalled

\* C39: a worker's stdin() on a line that is not empty leaves a new empty
\* line first, the submitted line second and selected_input 0, whichever
\* line was selected; on an empty line it leaves the lines as they were
\* and selected_input 0.
C39_Submission ==
    [][prompt.is_working /\ ~prompt'.is_working =>
         /\ prompt'.selected_input = 0
         /\ IF CurrentLen(prompt) > 0
            THEN /\ Len(prompt'.stdin) >= 2
                 /\ prompt'.stdin[1] = 0
                 /\ prompt'.stdin[2] = CurrentLen(prompt)
            ELSE prompt'.stdin = prompt.stdin]_vars

C39_Witness ==
    /\ prompt.recalled /\ prompt.key = "none"
    /\ prompt.stdin = <<0, 1, 2>>
    /\ prompt.selected_input = 0

\* the focused widget is an expanded terminal widget with no command
\* running
AtPrompt(t) == t.terminal /\ t.is_expanded /\ ~t.is_working

\* the step handles the key code with modifiers
Handles(code, modifiers) ==
    /\ ~quit.exited
    /\ quit'.code = code /\ quit'.modifiers = modifiers
    /\ quit' # quit

\* C38: 'q' without modifiers ends MainLoop exactly when no search widget
\* is focused and the focus is not on an expanded, idle terminal widget,
\* where it is typed in instead; Ctrl+C ends it in every state; a key that
\* ends the loop is followed by no update_data and no draw.
C38_QuitKeys ==
    /\ [][Handles("q", "none") =>
            /\ quit'.exited <=> ~quit.in_search /\ ~AtPrompt(quit)
            /\ AtPrompt(quit) /\ quit.line < MaxLine =>
                  quit'.line = quit.line + 1]_vars
    /\ [][Handles("c", "CONTROL") => quit'.exited]_vars
    /\ [](quit.exited => ~quit.updated /\ ~quit.drawn)

C38_Witness ==
    /\ quit.code = "q" /\ quit.modifiers = "none"
    /\ AtPrompt(quit) /\ quit.line = 2
    /\ ~quit.exited /\ quit.drawn

====
